---- MODULE Spec2Model ----
(***************************************************************************)
(* loverly-frankenstein: the entity/source composition engine.             *)
(*                                                                         *)
(* Spec: one caller-facing operation (Model.list, Model.read,              *)
(* Model.create, Model.update or Model.delete) runs against one model.     *)
(* The state is the entity instance's barrier (__meta.sourceOp), the       *)
(* adapter calls in flight, the deferred setImmediate closures and what    *)
(* the caller's callback received.  Every handler of the JavaScript source *)
(* is one operator that maps the machine record to the machine record      *)
(* after the handler has returned; adapter calls complete asynchronously,  *)
(* in any order, one per step.                                             *)
(*                                                                         *)
(* DocumentSpec: the synchronous walks of Instance.js over one instance    *)
(* handle (bind, isValid, toObject), value by value.                       *)
(*                                                                         *)
(* SourceSpec: the same handle between a source and the caller             *)
(* (bindFromSourceInstance, bind, and update up to the values set on the   *)
(* source instance).                                                       *)
(*                                                                         *)
(* RegistrationSpec: the registration of a model (constructor, addSource,  *)
(* initialize) over the configurations an application may write.           *)
(*                                                                         *)
(* OverlapSpec: two callers overlap their read and update calls; each      *)
(* handle (the entity and the callers' own instances) has its barrier.     *)
(*                                                                         *)
(* FunctionSpec: functions of the library applied alone to inputs drawn    *)
(* from bounded sets (validateFields, isSubDocumentDefinition,             *)
(* getQueryForSource).                                                     *)
(***************************************************************************)
EXTENDS Integers, Sequences, FiniteSets, TLC

VARIABLES
    model,       \* the model object: isNextGenModel, the registered sources
    request,     \* the caller's call: op, view, fields, options, data
    pc,          \* "idle" before the call, "running" after it was made
    sourceOp,    \* Instance.__meta.sourceOp: count, callback, isFailed, error
    inflight,    \* adapter calls dispatched and not yet called back
    issued,      \* every adapter call made so far, in dispatch order
    immediates,  \* closures handed to setImmediate and not yet run
    cbLog,       \* the invocations of the caller's callback, in order
    inst,        \* the entity instance: id, reference field, bound records
    pending,     \* create(): the dependent source instances of the closure
    results,     \* the outcomes the adapters reported, per call
    thrown,      \* an exception escaped a handler
    listed,      \* list(): the result object handed to the caller's callback
    doc,         \* the own properties of an instance handle, by path
    fieldMeta,   \* Instance.__meta.fields: hasChanged, hasError per leaf
    walk,        \* the last call made on the handle and what it returned
    record,      \* the source instance the handle is bound to, field by field
    setup,       \* a model being registered: its this.sources and how far it got
    overlap,     \* two callers at once: the barrier of every handle they use
    probe        \* a function of the library applied alone: arguments and result

\* the handle whose field values are followed property by property
handle == <<doc, fieldMeta, walk, record>>

vars == <<model, request, pc, sourceOp, inflight, issued, immediates, cbLog,
          inst, pending, results, thrown, listed, doc, fieldMeta, walk, record,
          setup, overlap, probe>>

-----------------------------------------------------------------------------
(* Bounds of the model *)

\* generated identifiers and reference ids range over 1..MaxId (0 is "no id")
MaxId == 1

\* a count reports up to MaxListed records and a list returns up to MaxListed
MaxListed == 2

-----------------------------------------------------------------------------
(* SourceMappingTypes.js and FieldMappingTypes.js *)

ONE_TO_ONE == "one-to-one"
ONE_TO_ONE_REF == "one-to-one-ref"
ONE_TO_MANY == "one-to-many"
SEARCH == "search"

FIELD == "field"
SUBMODEL_ARRAY == "submodel_array"
MODEL_REFERENCE == "model_reference"

-----------------------------------------------------------------------------
(* The model under test: its source registry and its field definition tree *)

\* this.sources of the model, in declaration order.  "field" is the entity
\* field a one-to-many or reference binding populates.  The reference field
\* "author" is a plain leaf of the primary source holding the foreign id, the
\* form generateResolveReferencesCallback reads with getChildWithDotNotation
\* (a leaf's mapping.refAlias, AbstractModel.js:1137); a field declared
\* MODEL_REFERENCE is replaced by a sub-document in initialize and is not
\* part of this model.
AllSources ==
    << [name |-> "posts",    relationship |-> ONE_TO_ONE,     is_primary |-> TRUE,
        foreign_key |-> "id",      field |-> <<>>],
       [name |-> "accounts", relationship |-> ONE_TO_ONE,     is_primary |-> FALSE,
        foreign_key |-> "post_id", field |-> <<>>],
       [name |-> "social",   relationship |-> ONE_TO_ONE,     is_primary |-> FALSE,
        foreign_key |-> "post_id", field |-> <<>>],
       [name |-> "comments", relationship |-> ONE_TO_MANY,    is_primary |-> FALSE,
        foreign_key |-> "post_id", field |-> <<"comments">>],
       [name |-> "authors",  relationship |-> ONE_TO_ONE_REF, is_primary |-> FALSE,
        foreign_key |-> "id",      field |-> <<"author">>],
       [name |-> "search",   relationship |-> SEARCH,         is_primary |-> FALSE,
        foreign_key |-> "id",      field |-> <<>>] >>

PrimaryName == "posts"

Leaf(key, source, mtype, views, required, readOnly) ==
    [key |-> key, kind |-> "leaf", source |-> source, mtype |-> mtype,
     views |-> views, required |-> required, readOnly |-> readOnly]

Sub(key, children) == [key |-> key, kind |-> "sub", children |-> children]

\* this.definition after modifyDefinitions (views are lookup sets).  A leaf
\* with source "" has no mapping and belongs to the primary source.
FullDefinition ==
    << Leaf("id", "posts", FIELD, {"default", "summary"}, FALSE, TRUE),
       Leaf("title", "", "", {"default"}, TRUE, FALSE),
       Leaf("author", "posts", FIELD, {"default"}, FALSE, FALSE),
       Leaf("email", "accounts", FIELD, {"summary"}, FALSE, FALSE),
       Sub("profile",
           << Leaf("bio", "accounts", FIELD, {}, FALSE, FALSE),
              Sub("social",
                  << Leaf("handle", "social", FIELD, {}, FALSE, FALSE) >>) >>),
       Leaf("comments", "comments", SUBMODEL_ARRAY, {"default"}, FALSE, FALSE) >>

\* AbstractModel.isSubDocumentDefinition / Instance.isSubDocumentDefinition:
\* a definition with an object-valued key outside constraints, views, mapping
isSubDocumentDefinition(def) == def.kind = "sub"

\* The definition of a model that registers only the sources in reg: fields
\* of other sources are not declared, and neither is an emptied sub-document.
RECURSIVE DefinitionOf(_, _)
DefinitionOf(defs, reg) ==
    IF defs = <<>> THEN <<>>
    ELSE LET d == Head(defs)
             rest == DefinitionOf(Tail(defs), reg)
         IN  IF isSubDocumentDefinition(d)
             THEN LET kids == DefinitionOf(d.children, reg)
                  IN  IF kids = <<>> THEN rest ELSE <<Sub(d.key, kids)>> \o rest
             ELSE IF d.source = "" \/ d.source \in reg THEN <<d>> \o rest ELSE rest

RECURSIVE SourcesOf(_, _)
SourcesOf(srcs, reg) ==
    IF srcs = <<>> THEN <<>>
    ELSE IF Head(srcs).name \in reg
         THEN <<Head(srcs)>> \o SourcesOf(Tail(srcs), reg)
         ELSE SourcesOf(Tail(srcs), reg)

\* this.sources and this.definition of the model of this run
Sources == SourcesOf(AllSources, model.registered)
Definition == DefinitionOf(FullDefinition, model.registered)

SourceInfo(name) ==
    CHOOSE s \in {AllSources[i] : i \in 1..Len(AllSources)} : s.name = name

-----------------------------------------------------------------------------
(* AbstractModel.prototype.shouldReadFromSource *)

\* The recursion passes i + '.' as the prefix of a sub-document's children
\* (not prefix + i + '.') and includedFields[prefix + i] as includeAll.
RECURSIVE shouldReadFromSource(_, _, _, _, _, _)
shouldReadFromSource(source, view, includedFields, definitions, prefix, includeAll) ==
    IF view = "all" \/ source.is_primary THEN TRUE
    ELSE \E n \in 1..Len(definitions) :
            LET d == definitions[n] IN
            IF isSubDocumentDefinition(d)
            THEN shouldReadFromSource(source, view, includedFields, d.children,
                                      <<d.key>>,
                                      (prefix \o <<d.key>>) \in includedFields)
            ELSE /\ d.source # ""
                 /\ d.source = source.name
                 /\ \/ view \in d.views
                    \/ (prefix \o <<d.key>>) \in includedFields
                    \/ includeAll

-----------------------------------------------------------------------------
(* Errors, adapter calls and the machine record *)

NoErr == [code |-> "null", origin |-> "none"]
AdapterError(code) == [code |-> code, origin |-> "adapter"]
AdapterErrors == {AdapterError("ER_DUP_ENTRY"), AdapterError("404"), AdapterError("OTHER")}
\* {code: 404, error: "Not found"} raised by the read closures
NotFound == [code |-> "404", origin |-> "engine"]
\* Instance.getErrors(): {code: 400, errors: {instance: [], fields: {...}}}
ValidationError == [code |-> "400", origin |-> "validation"]

\* the options object of a call that is given none that matters here
NoOptions == [limit |-> 0, offset |-> 0, sortOrder |-> "none"]

\* an adapter call: the source, the adapter method, the closure that receives
\* the result and the identifier passed (lookup key or foreign key value)
Call(src, method, closure, arg) ==
    [src |-> src, method |-> method, closure |-> closure, arg |-> arg,
     options |-> NoOptions]

\* the identifier of the entity the caller names in params.id
ParamsId == 1

\* the state the handlers read and write, as one record
M == [sourceOp |-> sourceOp, inflight |-> inflight, issued |-> issued,
      immediates |-> immediates, cbLog |-> cbLog, inst |-> inst,
      pending |-> pending, results |-> results, thrown |-> thrown,
      listed |-> listed]

Commit(m) ==
    /\ sourceOp' = m.sourceOp
    /\ inflight' = m.inflight
    /\ issued' = m.issued
    /\ immediates' = m.immediates
    /\ cbLog' = m.cbLog
    /\ inst' = m.inst
    /\ pending' = m.pending
    /\ results' = m.results
    /\ thrown' = m.thrown
    /\ listed' = m.listed
    /\ UNCHANGED <<handle, setup, overlap, probe>>

\* an adapter method is called: it will call back later
dispatch(m, call) ==
    [m EXCEPT !.inflight = @ \cup {call}, !.issued = Append(@, call)]

\* an uncaught exception ends the handler that is running
throw(m) == [m EXCEPT !.thrown = TRUE]

-----------------------------------------------------------------------------
(* Instance.js: the completion barrier *)

RECURSIVE Invoke(_, _, _, _)
RECURSIVE finishSourceOp(_)
RECURSIVE failSourceOp(_, _)

\* Instance.prototype.setSourceOpCallback
setSourceOpCallback(m, cb) == [m EXCEPT !.sourceOp.callback = cb]

\* Instance.prototype.isSourceOpInProgress
isSourceOpInProgress(m) == m.sourceOp.count > 0

\* Instance.prototype.isSourceOpFailed
isSourceOpFailed(m) == m.sourceOp.isFailed

\* this.startSourceOp
startSourceOp(m) == [m EXCEPT !.sourceOp.count = @ + 1]

\* the translation of the error in failSourceOp
translateError(err) ==
    IF err.code = "ER_DUP_ENTRY" THEN [code |-> "400", origin |-> "engine"]
    ELSE IF err.code # "404" THEN [code |-> "500", origin |-> "engine"]
    ELSE err

\* failSourceOp that neither latches the failure nor forgets the callback
failSourceOp_withoutLatch(m, err) ==
    Invoke([m EXCEPT !.sourceOp.error = err], m.sourceOp.callback,
           translateError(err), "null")

\* this.failSourceOp: the error is recorded and the callback cleared before
\* the latch is tested; the first failure calls the callback
failSourceOp(m, err) ==
    LET cb == m.sourceOp.callback
        m1 == [m EXCEPT !.sourceOp.error = err, !.sourceOp.callback = "null"]
    IN  IF m.sourceOp.isFailed
        THEN m1
        ELSE Invoke([m1 EXCEPT !.sourceOp.isFailed = TRUE], cb, translateError(err), "null")

\* this.finishSourceOp
finishSourceOp_whateverTheCount(m) ==
    LET m1 == [m EXCEPT !.sourceOp.count = @ - 1]
    IN  IF isSourceOpFailed(m1) THEN m1
        ELSE IF m1.sourceOp.callback # "null"
             THEN Invoke([m1 EXCEPT !.sourceOp.callback = "null"],
                         m1.sourceOp.callback, NoErr, "instance")
             ELSE m1

finishSourceOp(m) ==
    LET m1 == [m EXCEPT !.sourceOp.count = @ - 1]
    IN  IF isSourceOpFailed(m1) THEN m1
        ELSE IF ~isSourceOpInProgress(m1) /\ m1.sourceOp.callback # "null"
             THEN Invoke([m1 EXCEPT !.sourceOp.callback = "null"],
                         m1.sourceOp.callback, NoErr, "instance")
             ELSE m1

\* this.handleSourceOpCompletion
handleSourceOpCompletion(m, err) ==
    IF err # NoErr THEN failSourceOp(m, err) ELSE finishSourceOp(m)

\* the deferred closure "startSourceOp(); finishSourceOp();"
guaranteedOp(m) == finishSourceOp(startSourceOp(m))

-----------------------------------------------------------------------------
(* Instance.js: binding a source record to the entity *)

\* meta.instances[source.name] = {instance, source}: a property keeps its
\* place in the object when it is assigned again
RECURSIVE putInstance(_, _)
putInstance(instances, entry) ==
    IF instances = <<>> THEN <<entry>>
    ELSE IF Head(instances).name = entry.name
         THEN <<entry>> \o Tail(instances)
         ELSE <<Head(instances)>> \o putInstance(Tail(instances), entry)

\* Instance.prototype.bindFromSourceInstance with bindSourceInstanceToSelf:
\* the record (null when none was found) is kept under the source's name and
\* a record's values are copied to the fields the source owns
bindFromSourceInstance(m, name, outcome) ==
    LET entry == [name |-> name, record |-> outcome.status, dirty |-> FALSE]
        m1 == [m EXCEPT !.inst.instances = putInstance(@, entry)]
    IN  IF outcome.status = "ok" /\ name = PrimaryName
        THEN [m1 EXCEPT !.inst.id = outcome.id, !.inst.author = outcome.author]
        ELSE m1

-----------------------------------------------------------------------------
(* Instance.js: binding caller data, validation, routing fields to sources *)

\* the leaves of a definition tree in declaration order, each with its path
RECURSIVE Leaves(_, _)
Leaves(defs, prefix) ==
    IF defs = <<>> THEN <<>>
    ELSE LET d == Head(defs)
         IN  (IF isSubDocumentDefinition(d)
              THEN Leaves(d.children, prefix \o <<d.key>>)
              ELSE << [path |-> prefix \o <<d.key>>, def |-> d] >>)
             \o Leaves(Tail(defs), prefix)

\* Instance.prototype.bind / bindDataByDefinition: every sub-document of the
\* target is replaced by a fresh object, then each leaf the data carries a
\* truthy value for is bound, except a readOnly leaf on an update
bindDataByDefinition(m, data, isUpdate, leaves) ==
    LET idx == 1..Len(leaves)
        bound == {leaves[k].path : k \in
                    {n \in idx : /\ leaves[n].path \in data.fields
                                 /\ ~(leaves[n].def.readOnly /\ isUpdate)}}
        reset == {leaves[k].path : k \in {n \in idx : Len(leaves[n].path) > 1}}
    IN  [m EXCEPT !.inst.values = (@ \ reset) \cup bound,
                  !.inst.changed = IF isUpdate THEN @ \cup bound ELSE @ \ bound,
                  !.inst.bad = (@ \ (reset \cup bound)) \cup (bound \cap data.bad)]

\* Instance.prototype.bind binds the data by the instance's own definition
bind(m, data, isUpdate) ==
    bindDataByDefinition(m, data, isUpdate, Leaves(Definition, <<>>))

\* Instance.prototype.doDocumentFieldsHaveError: a required leaf without a
\* value, or a value that fails a constraint of its leaf
doDocumentFieldsHaveError(m) ==
    SelectSeq(Leaves(Definition, <<>>),
              LAMBDA l : \/ l.path \notin m.inst.values /\ l.def.required
                         \/ l.path \in m.inst.values /\ l.path \in m.inst.bad)
        # <<>>

\* Instance.prototype.isValid records the verdict in __meta.hasError
isValid(m) == [m EXCEPT !.inst.hasError = doDocumentFieldsHaveError(m)]

\* Instance.prototype.getUpdatedFields: the changed leaves, in declaration order
getUpdatedFields(m) ==
    SelectSeq(Leaves(Definition, <<>>),
              LAMBDA l : l.path \in m.inst.changed /\ l.path \in m.inst.values)

RECURSIVE hasInstance(_, _)
hasInstance(instances, name) ==
    IF instances = <<>> THEN FALSE
    ELSE Head(instances).name = name \/ hasInstance(Tail(instances), name)

RECURSIVE getInstance(_, _)
getInstance(instances, name) ==
    IF Head(instances).name = name THEN Head(instances)
    ELSE getInstance(Tail(instances), name)

\* Instance.prototype.mapFieldsToSourceInstances over the changed leaves: r is
\* [m, instances, aliases, primaryKey].  The instances object holds the
\* primary wrapper under the keys in aliases (one object under several keys);
\* primaryKey is the key it is listed under here.  A leaf is looked up under
\* its mapping.source, or under 'primary' when it has none.  A source
\* instance is created the first time a field of its source is met; a
\* submodel array gets a wrapper that has no instance; setting a field on a
\* wrapper whose instance is null or missing throws.
RECURSIVE mapFieldsToSourceInstances(_, _)
mapFieldsToSourceInstances(r, fields) ==
    IF fields = <<>> \/ r.m.thrown THEN r
    ELSE LET d == Head(fields).def
             key == IF d.source # "" THEN d.source ELSE "primary"
             sourceName == IF key \in r.aliases THEN r.primaryKey ELSE key
             known == hasInstance(r.instances, sourceName)
             step ==
                IF d.mtype = "" \/ d.mtype = FIELD
                THEN IF ~known
                     THEN [r EXCEPT
                             !.m.issued = Append(@,
                                 Call(sourceName, "createInstance", "none", 0)),
                             !.instances = Append(@,
                                 [name |-> sourceName, record |-> "ok", dirty |-> TRUE])]
                     ELSE IF getInstance(r.instances, sourceName).record # "ok"
                          THEN [r EXCEPT !.m = throw(@)]
                          ELSE [r EXCEPT !.instances = putInstance(@,
                                   [name |-> sourceName, record |-> "ok", dirty |-> TRUE])]
                ELSE IF d.mtype = SUBMODEL_ARRAY
                     THEN IF ~known
                          THEN [r EXCEPT !.instances = Append(@,
                                   [name |-> sourceName, record |-> "array", dirty |-> FALSE])]
                          ELSE IF getInstance(r.instances, sourceName).record # "array"
                               THEN [r EXCEPT !.m = throw(@)]
                               ELSE r
                     ELSE r
         IN  mapFieldsToSourceInstances(step, Tail(fields))

-----------------------------------------------------------------------------
(* AbstractModel.js: read *)

\* the instance this.createInstance() returns
NewInstance ==
    [id |-> 0, author |-> 0, resolved |-> "no", instances |-> <<>>,
     values |-> {}, changed |-> {}, bad |-> {}, hasError |-> FALSE]

\* what an adapter reports: "ok" with a record, "null" (no record), or "err"
Outcome(status, err, id, author) ==
    [status |-> status, err |-> err, id |-> id, author |-> author]

\* the read loop without the test that defers the reference bindings
RECURSIVE readSources_readsReferences(_, _, _, _)
readSources_readsReferences(m, srcs, view, fields) ==
    IF srcs = <<>> THEN m
    ELSE LET s == Head(srcs)
             m1 == startSourceOp(m)
             next ==
                IF ~shouldReadFromSource(s, view, fields, Definition, <<>>, FALSE)
                THEN m
                ELSE IF s.relationship \in {ONE_TO_ONE, ONE_TO_ONE_REF}
                     THEN dispatch(m1, Call(s.name, "read",
                                            "generateSourceReadClosure", ParamsId))
                ELSE IF s.relationship = ONE_TO_MANY
                     THEN dispatch(m1, Call(s.name, "list",
                                            "generateSourceReadManyClosure", ParamsId))
                ELSE m1
         IN  readSources_readsReferences(next, Tail(srcs), view, fields)

\* the loop of AbstractModel.prototype.read over this.sources: the operation
\* counter is incremented for every selected binding that is not a
\* reference, and a call is made for one-to-one and one-to-many bindings
RECURSIVE readSources(_, _, _, _)
readSources(m, srcs, view, fields) ==
    IF srcs = <<>> THEN m
    ELSE LET s == Head(srcs)
             m1 == startSourceOp(m)
             next ==
                IF ~shouldReadFromSource(s, view, fields, Definition, <<>>, FALSE)
                THEN m
                ELSE IF s.relationship = ONE_TO_ONE_REF THEN m
                ELSE IF s.relationship = ONE_TO_ONE
                     THEN dispatch(m1, Call(s.name, "read",
                                            "generateSourceReadClosure", ParamsId))
                ELSE IF s.relationship = ONE_TO_MANY
                     THEN dispatch(m1, Call(s.name, "list",
                                            "generateSourceReadManyClosure", ParamsId))
                ELSE m1
         IN  readSources(next, Tail(srcs), view, fields)

\* AbstractModel.prototype.read (sources registry)
read(m, view, fields, callback) ==
    readSources(setSourceOpCallback([m EXCEPT !.inst = NewInstance], callback),
                Sources, view, fields)

\* the deprecated AbstractModel.prototype.read: every table is read, then
\* every one-to-many sub-model is listed
RECURSIVE readTables(_, _)
readTables(m, srcs) ==
    IF srcs = <<>> THEN m
    ELSE LET s == Head(srcs)
             next == IF s.relationship = ONE_TO_ONE
                     THEN dispatch(startSourceOp(m),
                                   Call(s.name, "readOne",
                                        "generateOneToOneReadClosure", ParamsId))
                     ELSE m
         IN  readTables(next, Tail(srcs))

RECURSIVE readModels(_, _)
readModels(m, srcs) ==
    IF srcs = <<>> THEN m
    ELSE LET s == Head(srcs)
             next == IF s.relationship = ONE_TO_MANY
                     THEN dispatch(startSourceOp(m),
                                   Call(s.name, "list",
                                        "generateOneToManyReadClosure", ParamsId))
                     ELSE m
         IN  readModels(next, Tail(srcs))

read_deprecated(m, callback) ==
    readModels(readTables(setSourceOpCallback([m EXCEPT !.inst = NewInstance],
                                              callback), Sources), Sources)

\* the values a record of a source gives to the entity's leaves
boundLeaves(name, outcome) ==
    LET leaves == Leaves(Definition, <<>>)
    IN  {leaves[k].path : k \in
            {n \in 1..Len(leaves) :
                /\ leaves[n].def.mtype # SUBMODEL_ARRAY
                /\ \/ leaves[n].def.source = name
                   \/ leaves[n].def.source = "" /\ name = PrimaryName
                /\ leaves[n].path = <<"author">> => outcome.author # 0}}

\* bindFromSourceInstance followed by the values it copies
bindRecord(m, name, outcome) ==
    LET m1 == bindFromSourceInstance(m, name, outcome)
    IN  IF outcome.status = "ok"
        THEN [m1 EXCEPT !.inst.values = @ \cup boundLeaves(name, outcome)]
        ELSE m1

\* the read closure without the test for a missing primary record
generateSourceReadClosure_bindsMissingPrimary(m, sourceInfo, outcome) ==
    IF isSourceOpFailed(m) THEN m
    ELSE IF outcome.status = "err" THEN failSourceOp(m, outcome.err)
    ELSE finishSourceOp(bindRecord(m, sourceInfo.name, outcome))

\* the closure of AbstractModel.prototype.generateSourceReadClosure
generateSourceReadClosure(m, sourceInfo, outcome) ==
    IF isSourceOpFailed(m) THEN m
    ELSE IF outcome.status = "err" THEN failSourceOp(m, outcome.err)
    ELSE IF sourceInfo.is_primary /\ outcome.status = "null"
         THEN failSourceOp(m, NotFound)
    ELSE finishSourceOp(bindRecord(m, sourceInfo.name, outcome))

\* the closure of AbstractModel.prototype.generateSourceReadManyClosure
generateSourceReadManyClosure(m, field, outcome) ==
    IF isSourceOpFailed(m) THEN m
    ELSE IF outcome.status = "err" THEN failSourceOp(m, outcome.err)
    ELSE finishSourceOp([m EXCEPT !.inst.values = @ \cup {field}])

\* the closure of the deprecated generateOneToOneReadClosure: the missing
\* primary record is tested before the error
generateOneToOneReadClosure(m, table, outcome) ==
    IF isSourceOpFailed(m) THEN m
    ELSE IF table.is_primary /\ outcome.status # "ok"
         THEN failSourceOp(m, NotFound)
    ELSE IF outcome.status = "err" THEN failSourceOp(m, outcome.err)
    ELSE IF outcome.status = "ok"
         THEN finishSourceOp(bindRecord(m, table.name, outcome))
         ELSE finishSourceOp(m)

\* the closure of the deprecated generateOneToManyReadClosure
generateOneToManyReadClosure(m, field, outcome) ==
    IF isSourceOpFailed(m) THEN m
    ELSE IF outcome.status = "err" THEN failSourceOp(m, outcome.err)
    ELSE finishSourceOp([m EXCEPT !.inst.values = @ \cup {field}])

-----------------------------------------------------------------------------
(* AbstractModel.js: the reference-resolution pass *)

\* AbstractModel.getChildWithDotNotation(refKey, newInstance): the id the
\* reference field holds, 0 when it holds none
getChildWithDotNotation(field, m) ==
    IF field = <<"author">> /\ m.inst.resolved = "no" THEN m.inst.author ELSE 0

\* the loop of the resolve-references callback over this.sources
RECURSIVE resolveSources(_, _, _, _)
resolveSources(m, srcs, view, fields) ==
    IF srcs = <<>> THEN m
    ELSE LET s == Head(srcs)
             id == getChildWithDotNotation(s.field, m)
             next ==
                IF ~shouldReadFromSource(s, view, fields, Definition, <<>>, FALSE)
                THEN m
                ELSE IF s.relationship # ONE_TO_ONE_REF THEN m
                ELSE IF id = 0 THEN m
                ELSE dispatch(startSourceOp(m),
                              Call(s.name, "read",
                                   "generateSubmodelReferenceClosure", id))
         IN  resolveSources(next, Tail(srcs), view, fields)

\* the closure of AbstractModel.prototype.generateResolveReferencesCallback
generateResolveReferencesCallback(m, err, value) ==
    IF err # NoErr THEN Invoke(m, "callback", err, "undefined")
    ELSE IF value # "instance" THEN Invoke(m, "callback", NoErr, "undefined")
    ELSE LET m1 == setSourceOpCallback(m, "callback")
             m2 == resolveSources(m1, Sources, request.view, request.fields)
         IN  [m2 EXCEPT !.immediates = @ + 1]

\* the closure of AbstractModel.prototype.generateSubmodelReferenceClosure
generateSubmodelReferenceClosure(m, field, outcome) ==
    IF isSourceOpFailed(m) THEN m
    ELSE IF outcome.status = "err" THEN failSourceOp(m, outcome.err)
    ELSE finishSourceOp([m EXCEPT !.inst.resolved =
                            IF outcome.status = "ok" THEN "object" ELSE "null"])

-----------------------------------------------------------------------------
(* Instance.js: create *)

\* the loop of the dependent-sources closure without the foreign key assignment
RECURSIVE saveDependents_withoutForeignKey(_, _, _)
saveDependents_withoutForeignKey(m, instances, primaryId) ==
    IF instances = <<>> \/ m.thrown THEN m
    ELSE LET w == Head(instances)
             next == IF w.record # "ok" THEN throw(m)
                     ELSE dispatch(startSourceOp(m),
                                   Call(w.name, "save",
                                        "generateSourceCreateCallback", 0))
         IN  saveDependents_withoutForeignKey(next, Tail(instances), primaryId)

\* the loop of the dependent-sources closure: the foreign key of each
\* dependent instance is set to the primary's id, then the instance is saved;
\* a submodel-array wrapper has no instance and the assignment throws
RECURSIVE saveDependents(_, _, _)
saveDependents(m, instances, primaryId) ==
    IF instances = <<>> \/ m.thrown THEN m
    ELSE LET w == Head(instances)
             next == IF w.record # "ok" THEN throw(m)
                     ELSE dispatch(startSourceOp(m),
                                   Call(w.name, "save",
                                        "generateSourceCreateCallback", primaryId))
         IN  saveDependents(next, Tail(instances), primaryId)

\* the closure of Instance.prototype.generateDependentSourcesClosure
generateDependentSourcesClosure(m, outcome) ==
    IF outcome.status = "err" THEN failSourceOp(m, outcome.err)
    ELSE LET m1 == bindRecord(m, PrimaryName, outcome)
             m2 == saveDependents(m1, m1.pending, outcome.id)
         IN  IF m2.thrown THEN m2 ELSE guaranteedOp(m2)

\* the create callback that counts a failed save as finished
generateSourceCreateCallback_ignoresError(m, name, outcome) ==
    IF outcome.status = "err" THEN finishSourceOp(m)
    ELSE finishSourceOp(bindFromSourceInstance(m, name, outcome))

\* the closure of Instance.prototype.generateSourceCreateCallback
generateSourceCreateCallback(m, name, outcome) ==
    IF outcome.status = "err" THEN failSourceOp(m, outcome.err)
    ELSE finishSourceOp(bindFromSourceInstance(m, name, outcome))

\* meta.primarySource.name: the "name" property of the primary's entry of
\* this.sources; an entry that has none gives undefined
primarySourceName == IF model.named THEN PrimaryName ELSE "undefined"

\* Instance.prototype.create of a model declared through the sources registry:
\* the primary wrapper is kept under 'primary' and under primarySource.name,
\* both keys are deleted after the mapping and what is left are the dependents
create(m) ==
    LET m0 == isValid(m)
        m1 == [m0 EXCEPT !.issued = Append(@,
                  Call(PrimaryName, "createInstance", "none", 0))]
        r == mapFieldsToSourceInstances(
                 [m |-> m1,
                  instances |-> << [name |-> "primary", record |-> "ok",
                                    dirty |-> FALSE] >>,
                  aliases |-> {"primary", primarySourceName},
                  primaryKey |-> "primary"],
                 getUpdatedFields(m0))
        m2 == [r.m EXCEPT !.pending = Tail(r.instances)]
        m3 == dispatch(m2, Call(PrimaryName, "save",
                                "generateDependentSourcesClosure", 0))
    IN  IF m0.inst.hasError THEN Invoke(m0, "callback", ValidationError, "undefined")
        ELSE IF r.m.thrown THEN r.m
        ELSE setSourceOpCallback(m3, "callback")

-----------------------------------------------------------------------------
(* Instance.js: update *)

\* the update loop without the test of the instance's isDirty
RECURSIVE saveInstances_everyInstance(_, _)
saveInstances_everyInstance(m, instances) ==
    IF instances = <<>> \/ m.thrown THEN m
    ELSE LET w == Head(instances)
             next == IF w.record # "ok" THEN throw(m)
                     ELSE dispatch(startSourceOp(m),
                                   Call(w.name, "save",
                                        "generateSourceCreateCallback",
                                        m.inst.id))
         IN  saveInstances_everyInstance(next, Tail(instances))

\* the loop of Instance.prototype.update over meta.instances: assigning the
\* foreign key throws on a null or missing instance; a dirty instance is saved
RECURSIVE saveInstances(_, _)
saveInstances(m, instances) ==
    IF instances = <<>> \/ m.thrown THEN m
    ELSE LET w == Head(instances)
             next == IF w.record # "ok" THEN throw(m)
                     ELSE IF w.dirty
                          THEN dispatch(startSourceOp(m),
                                        Call(w.name, "save",
                                             "generateSourceCreateCallback",
                                             m.inst.id))
                          ELSE m
         IN  saveInstances(next, Tail(instances))

\* setImmediate(guaranteedOp) at the end of a pass that did not throw
setImmediate(m) == IF m.thrown THEN m ELSE [m EXCEPT !.immediates = @ + 1]

\* Instance.prototype.update from the loop on: the callback is set, the
\* instances are saved and the guaranteed op is deferred
updateInstances(m) ==
    IF m.thrown THEN m
    ELSE setImmediate(saveInstances(setSourceOpCallback(m, "callback"),
                                    m.inst.instances))

\* meta.instances takes the instances the mapping created
updateMapped(r) == updateInstances([r.m EXCEPT !.inst.instances = r.instances])

\* Instance.prototype.update of a sources-registry model, after validation
updateSources(m) ==
    updateMapped(mapFieldsToSourceInstances(
                     [m |-> m, instances |-> m.inst.instances,
                      aliases |-> {"primary", PrimaryName},
                      primaryKey |-> PrimaryName],
                     getUpdatedFields(m)))

\* the update that reports the validation error and goes on to save
updateValidated_withoutReturn(m) ==
    IF ~model.isNextGenModel
    THEN throw(IF m.inst.hasError
               THEN Invoke(m, "callback", ValidationError, "undefined") ELSE m)
    ELSE updateSources(IF m.inst.hasError
                       THEN Invoke(m, "callback", ValidationError, "undefined")
                       ELSE m)

\* Instance.prototype.update once isValid has run: a validation error is
\* reported and ends the update; the deprecated branch passes the undefined
\* name "callbacks" to update_deprecated, which throws a ReferenceError
updateValidated(m) ==
    IF m.inst.hasError THEN Invoke(m, "callback", ValidationError, "undefined")
    ELSE IF ~model.isNextGenModel THEN throw(m)
    ELSE updateSources(m)

\* Instance.prototype.update
update(m) == updateValidated(isValid(m))

\* the callback of update that binds and updates whatever read reported
modelUpdateCallback_ignoresError(m, err, value) ==
    update(bind(m, request.data, TRUE))

\* the callback AbstractModel.prototype.update gives to read
modelUpdateCallback(m, err, value) ==
    IF err # NoErr \/ value # "instance" THEN Invoke(m, "callback", err, "undefined")
    ELSE update(bind(m, request.data, TRUE))

-----------------------------------------------------------------------------
(* Instance.js: destroy *)

\* meta.instances.databases[..].tables: the records bindOrmInstance kept.  An
\* instance of a sources-registry model has no "databases" entry.
boundTables(m) == IF model.isNextGenModel THEN <<>> ELSE m.inst.instances

\* the destroy loop that destroys the primary record where it meets it
RECURSIVE destroyTables_primaryAtOnce(_, _)
destroyTables_primaryAtOnce(m, tables) ==
    IF tables = <<>> THEN m
    ELSE LET t == Head(tables)
             next == IF SourceInfo(t.name).is_primary
                     THEN dispatch(setSourceOpCallback(m, "callback"),
                                   Call(t.name, "destroy", "deletePrimaryRecord", 0))
                     ELSE dispatch(startSourceOp(m),
                                   Call(t.name, "destroy", "destroyRecord", 0))
         IN  destroyTables_primaryAtOnce(next, Tail(tables))

\* the loop of Instance.prototype.destroy: the primary record's handler
\* becomes the barrier callback, every other record is destroyed
RECURSIVE destroyTables(_, _)
destroyTables(m, tables) ==
    IF tables = <<>> THEN m
    ELSE LET t == Head(tables)
             next == IF SourceInfo(t.name).is_primary
                     THEN setSourceOpCallback(m, "deletePrimaryRecordHandler")
                     ELSE dispatch(startSourceOp(m),
                                   Call(t.name, "destroy", "destroyRecord", 0))
         IN  destroyTables(next, Tail(tables))

\* .success(this.finishSourceOp).error(this.failSourceOp)
destroyRecord(m, outcome) ==
    IF outcome.status = "err" THEN failSourceOp(m, outcome.err)
    ELSE finishSourceOp(m)

\* Instance.prototype.destroy
destroy(m) == guaranteedOp(destroyTables(m, boundTables(m)))

\* the closure of Instance.prototype.generateDeletePrimaryRecordHandler
generateDeletePrimaryRecordHandler(m, err) ==
    IF err # NoErr THEN Invoke(m, "callback", err, "undefined")
    ELSE dispatch(m, Call(PrimaryName, "destroy", "deletePrimaryRecord", 0))

\* .success(function () { callback(null, true); }).error(callback)
deletePrimaryRecord(m, outcome) ==
    IF outcome.status = "err" THEN Invoke(m, "callback", outcome.err, "undefined")
    ELSE Invoke(m, "callback", NoErr, "true")

\* the callback AbstractModel.prototype.delete gives to read
modelDeleteCallback(m, err, value) ==
    IF err # NoErr \/ value # "instance" THEN Invoke(m, "callback", err, "undefined")
    ELSE destroy(m)

-----------------------------------------------------------------------------
(* AbstractModel.js: list *)

\* options.limit when the caller gives none
DefaultLimit == 25

\* no result object yet
NoList == [kind |-> "none", total |-> 0, limit |-> 0, offset |-> 0, size |-> 0,
           bound |-> {}]

\* the sort order without the test against 'ASC' and 'DESC'
normalizeSortOrder_unchecked(sort_order) ==
    IF sort_order # "" THEN sort_order ELSE "ASC"

\* options.sortOrder: sort_order or 'ASC', then 'ASC' unless 'ASC' or 'DESC'
normalizeSortOrder(sort_order) ==
    LET sortOrder == IF sort_order # "" THEN sort_order ELSE "ASC"
    IN  IF sortOrder # "ASC" /\ sortOrder # "DESC" THEN "ASC" ELSE sortOrder

\* the normalisation of the options at the head of AbstractModel.prototype.list
normalizeListOptions(options) ==
    [limit |-> IF options.limit # 0 THEN options.limit ELSE DefaultLimit,
     offset |-> IF options.offset # 0 THEN options.offset ELSE 0,
     sortOrder |-> normalizeSortOrder(options.sort_order)]

\* a call of the primary source made by list: it carries the options
ListCall(src, method, closure, arg, options) ==
    [Call(src, method, closure, arg) EXCEPT !.options = options]

\* the loop of AbstractModel.prototype.list over this.sources: it ends at
\* the primary source, which is counted or listed
RECURSIVE listSources(_, _, _)
listSources(m, srcs, options) ==
    IF srcs = <<>> THEN m
    ELSE LET s == Head(srcs)
         IN  IF s.is_primary
             THEN IF options.should_include_meta
                  THEN dispatch(m, ListCall(s.name, "count",
                                    "generateGetListDataCallback", 0,
                                    normalizeListOptions(options)))
                  ELSE dispatch(m, ListCall(s.name, "list",
                                    "generateListFromSourceCallback", 0,
                                    normalizeListOptions(options)))
             ELSE listSources(m, Tail(srcs), options)

\* AbstractModel.prototype.list
list(m, options) == listSources(m, Sources, options)

\* the count callback that lists whatever the count reported
generateGetListDataCallback_ignoresError(m, call, outcome) ==
    dispatch(m, ListCall(call.src, "list", "generateListFromSourceCallback",
                         outcome.id, call.options))

\* the closure of AbstractModel.prototype.generateGetListDataCallback: the
\* count is kept for the closure that receives the list
generateGetListDataCallback(m, call, outcome) ==
    IF outcome.status = "err" THEN Invoke(m, "callback", outcome.err, "undefined")
    ELSE dispatch(m, ListCall(call.src, "list", "generateListFromSourceCallback",
                              outcome.id, call.options))

\* the list callback that also binds the record of every selected secondary
\* one-to-one or one-to-many source to each instance
generateListFromSourceCallback_decorated(m, call, outcome) ==
    IF outcome.status = "err" THEN Invoke(m, "callback", outcome.err, "undefined")
    ELSE LET result == [kind |-> IF request.options.should_include_meta
                                 THEN "result" ELSE "list",
                        total |-> call.arg,
                        limit |-> call.options.limit,
                        offset |-> call.options.offset,
                        size |-> outcome.id,
                        bound |-> {Sources[n].name : n \in
                            {k \in 1..Len(Sources) :
                                /\ Sources[k].relationship \in {ONE_TO_ONE, ONE_TO_MANY}
                                /\ shouldReadFromSource(Sources[k], request.view,
                                       request.fields, Definition, <<>>, FALSE)}}]
         IN  Invoke([m EXCEPT !.listed = result], "callback", NoErr, result.kind)

\* the closure of AbstractModel.prototype.generateListFromSourceCallback: an
\* instance is created for each record and bound from that record, which is
\* the primary source's; the result is the list alone unless
\* should_include_meta is set
generateListFromSourceCallback(m, call, outcome) ==
    IF outcome.status = "err" THEN Invoke(m, "callback", outcome.err, "undefined")
    ELSE LET result == [kind |-> IF request.options.should_include_meta
                                 THEN "result" ELSE "list",
                        total |-> call.arg,
                        limit |-> call.options.limit,
                        offset |-> call.options.offset,
                        size |-> outcome.id,
                        bound |-> {call.src}]
         IN  Invoke([m EXCEPT !.listed = result], "callback", NoErr, result.kind)

-----------------------------------------------------------------------------
(* Calling a callback *)

\* cb(err, value): "callback" is the caller's; calling null throws
Invoke(m, cb, err, value) ==
    CASE cb = "callback" ->
            [m EXCEPT !.cbLog = Append(@, [err |-> err, value |-> value])]
      [] cb = "generateResolveReferencesCallback" ->
            generateResolveReferencesCallback(m, err, value)
      [] cb = "modelUpdateCallback" -> modelUpdateCallback(m, err, value)
      [] cb = "modelDeleteCallback" -> modelDeleteCallback(m, err, value)
      [] cb = "deletePrimaryRecordHandler" ->
            generateDeletePrimaryRecordHandler(m, err)
      [] OTHER -> throw(m)

-----------------------------------------------------------------------------
(* Instance.js, value by value: the definition and the handle *)

\* a leaf of a definition with the attributes the walks read: its views
\* lookup, required, readOnly, defaultValue ("undefined" when it has none),
\* whether it has constraints, and the names of the functions its mapping
\* defines
Field(key, views, required, readOnly, defaultValue, constrained, mapping) ==
    [key |-> key, kind |-> "leaf", views |-> views, required |-> required,
     readOnly |-> readOnly, defaultValue |-> defaultValue,
     constrained |-> constrained, mapping |-> mapping]

\* this.definition of the model whose instance is walked.  The default of
\* status is a value its own constraint rejects, as that of example1 in the
\* definition AbstractModel gives (default "value", len [1, 3]).
DocumentDefinition ==
    << Field("id", {"default"}, FALSE, TRUE, "undefined", FALSE, {}),
       Field("title", {"default"}, TRUE, FALSE, "undefined", TRUE, {}),
       Field("status", {"summary"}, TRUE, FALSE, "bad", TRUE, {}),
       Sub("profile",
           << Field("bio", {}, FALSE, FALSE, "undefined", FALSE,
                    {"serialize", "deserialize"}) >>) >>

\* the paths of the sub-documents of a definition tree
RECURSIVE SubDocuments(_, _)
SubDocuments(defs, prefix) ==
    IF defs = <<>> THEN {}
    ELSE LET d == Head(defs)
         IN  (IF isSubDocumentDefinition(d)
              THEN {prefix \o <<d.key>>}
                   \cup SubDocuments(d.children, prefix \o <<d.key>>)
              ELSE {})
             \cup SubDocuments(Tail(defs), prefix)

DocumentLeaves == Leaves(DocumentDefinition, <<>>)
LeafPaths == {DocumentLeaves[n].path : n \in 1..Len(DocumentLeaves)}
SubPaths == SubDocuments(DocumentDefinition, <<>>)

\* definition[i] of the walk that stands at path p
LeafDefinition(p) ==
    (CHOOSE l \in {DocumentLeaves[n] : n \in 1..Len(DocumentLeaves)} :
        l.path = p).def

\* keys a caller can put on the handle that the definition does not have
ExtraPaths == { <<"extra">>, <<"profile", "extra">> }

\* own properties the constructor gives every instance: this.__meta and the
\* functions it assigns (this.check, this.shouldDelete, this.failSourceOp, ..)
ReservedPaths == { <<"__meta">>, <<"check">> }

Paths == LeafPaths \cup SubPaths \cup ExtraPaths \cup ReservedPaths

\* p is a proper ancestor of q
IsPrefix(p, q) == Len(p) < Len(q) /\ SubSeq(q, 1, Len(p)) = p

\* q is a property of the object at path p
IsChild(p, q) == Len(q) = Len(p) + 1 /\ SubSeq(q, 1, Len(p)) = p

\* JavaScript truthiness of the values a property takes here: "undefined"
\* (no such property), "null", "falsy" (0, '' or false), "good" and "bad"
\* (a value that passes / fails the constraints of its field), "raw" (a
\* value in the form its source stores),
\* "object" (a sub-document), "meta" and "function"
Truthy(v) == v \notin {"undefined", "null", "falsy"}

\* the handle createInstance() returns: no data property yet
EmptyDocument ==
    [p \in Paths |-> CASE p = <<"__meta">> -> "meta"
                       [] p = <<"check">> -> "function"
                       [] OTHER -> "undefined"]

\* Instance.prototype.createFieldMetadata
NewFieldMetadata == [p \in LeafPaths |-> [hasChanged |-> FALSE, hasError |-> FALSE]]

\* the object at path p exists (the handle itself is at <<>>)
IsObject(d, p) == IF p = <<>> THEN TRUE ELSE d[p] = "object"

\* target[i] = {} : a fresh object replaces whatever was at path p
freshObject(d, p) ==
    [q \in DOMAIN d |-> IF q = p THEN "object"
                        ELSE IF IsPrefix(p, q) THEN "undefined" ELSE d[q]]

\* delete data[i] : the property at path p and all it holds are gone
deleteProperty(d, p) ==
    [q \in DOMAIN d |-> IF q = p \/ IsPrefix(p, q) THEN "undefined" ELSE d[q]]

\* Instance.prototype.bindDataByDefinition, value by value: o is
\* [doc, meta].  A sub-document of the target is replaced by a fresh object
\* and is recursed into when the data has an object there; a leaf is bound
\* when the data's value is truthy and the leaf is not readOnly on an update;
\* a bound leaf's hasChanged becomes isUpdate.
RECURSIVE bindValues(_, _, _, _, _)
bindValues(o, defs, prefix, data, isUpdate) ==
    IF defs = <<>> THEN o
    ELSE LET d == Head(defs)
             p == prefix \o <<d.key>>
             next ==
                IF isSubDocumentDefinition(d)
                THEN IF data[p] = "object"
                     THEN bindValues([o EXCEPT !.doc = freshObject(@, p)],
                                     d.children, p, data, isUpdate)
                     ELSE [o EXCEPT !.doc = freshObject(@, p)]
                ELSE IF ~Truthy(data[p]) THEN o
                ELSE IF d.readOnly /\ isUpdate THEN o
                ELSE [o EXCEPT !.doc[p] = data[p],
                               !.meta[p].hasChanged = isUpdate]
         IN  bindValues(next, Tail(defs), prefix, data, isUpdate)

\* the walks carry o == [doc, meta, hasError, thrown]
Walked(d, meta) == [doc |-> d, meta |-> meta, hasError |-> FALSE, thrown |-> FALSE]

\* Instance.prototype.bind
bindDocument(d, meta, data, isUpdate) ==
    bindValues(Walked(d, meta), DocumentDefinition, <<>>, data, isUpdate)

\* the stripping loop that spares nothing
stripExtraFields_everyKey(d, prefix) ==
    [q \in DOMAIN d |->
        IF \E e \in DOMAIN d :
              /\ IsChild(prefix, e)
              /\ e = q \/ IsPrefix(e, q)
              /\ e \notin LeafPaths \cup SubPaths
        THEN "undefined" ELSE d[q]]

\* the last loop of doDocumentFieldsHaveError: a property of the object at
\* prefix that the definition does not have is deleted, unless it is named
\* __meta or prototype or holds a function
stripExtraFields(d, prefix) ==
    [q \in DOMAIN d |->
        IF \E e \in DOMAIN d :
              /\ IsChild(prefix, e)
              /\ e = q \/ IsPrefix(e, q)
              /\ e \notin LeafPaths \cup SubPaths
              /\ e[Len(e)] \notin {"__meta", "prototype"}
              /\ d[e] # "function"
        THEN "undefined" ELSE d[q]]

\* the validation that never flags an unset required field
validateField_skipsUnset(o, d, p, field, hasData) ==
    IF field \in {"undefined", "null"}
    THEN [o EXCEPT !.meta[p].hasError = FALSE]
    ELSE IF d.constrained /\ field = "bad"
         THEN [o EXCEPT !.meta[p].hasError = TRUE, !.hasError = TRUE]
         ELSE [o EXCEPT !.meta[p].hasError = FALSE]

\* one leaf of the loop of doDocumentFieldsHaveError: field is data[i], or
\* null when data is not an object.  An unset field takes its default, or is
\* an error when it is required; a set field is checked by its constraints.
validateField(o, d, p, field, hasData) ==
    IF field \in {"undefined", "null"}
    THEN IF d.defaultValue # "undefined"
         THEN IF hasData
              THEN [o EXCEPT !.doc[p] = d.defaultValue, !.meta[p].hasError = FALSE]
              ELSE [o EXCEPT !.thrown = TRUE]
         ELSE IF d.required
              THEN [o EXCEPT !.meta[p].hasError = TRUE, !.hasError = TRUE]
              ELSE [o EXCEPT !.meta[p].hasError = FALSE]
    ELSE IF d.constrained /\ field = "bad"
         THEN [o EXCEPT !.meta[p].hasError = TRUE, !.hasError = TRUE]
         ELSE [o EXCEPT !.meta[p].hasError = FALSE]

\* Instance.prototype.doDocumentFieldsHaveError, value by value
RECURSIVE validateValues(_, _, _)
validateValues(o, defs, prefix) ==
    IF o.thrown THEN o
    ELSE IF defs = <<>>
    THEN IF IsObject(o.doc, prefix)
         THEN [o EXCEPT !.doc = stripExtraFields(@, prefix)]
         ELSE o
    ELSE LET d == Head(defs)
             p == prefix \o <<d.key>>
             next ==
                IF isSubDocumentDefinition(d)
                THEN validateValues(o, d.children, p)
                ELSE validateField(o, d, p,
                                   IF IsObject(o.doc, prefix) THEN o.doc[p] ELSE "null",
                                   IsObject(o.doc, prefix))
         IN  validateValues(next, Tail(defs), prefix)

\* Instance.prototype.isValid
validateDocument(d, meta) ==
    validateValues(Walked(d, meta), DocumentDefinition, <<>>)

\* the own properties of the object at path p
Properties(d, p) == {q \in DOMAIN d : IsChild(p, q) /\ d[q] # "undefined"}

\* shouldInclude that does not hand includeAll down
shouldInclude_ownPathOnly(q, view, fieldMap, includeAll) ==
    \/ view = "all"
    \/ q \in LeafPaths /\ view \in LeafDefinition(q).views
    \/ q \in fieldMap

\* shouldInclude of recursiveDeepCopy for the property at path q
shouldInclude(q, view, fieldMap, includeAll) ==
    \/ includeAll
    \/ q \in LeafPaths /\ view \in LeafDefinition(q).views
    \/ q \in fieldMap

\* a copy loop that skips nothing
isSkipped_never(d, q) == FALSE

\* the skip at the head of the loop of recursiveDeepCopy
isSkipped(d, q) == q[Len(q)] = "__meta" \/ d[q] = "function"

\* what recursiveDeepCopy does with the copy of a sub-document once the
\* recursion has returned: kept when something was copied, deleted otherwise
subDocumentCopy(didUpdate, q, sub) ==
    IF sub.thrown THEN sub
    ELSE IF sub.didUpdate THEN sub
    ELSE [sub EXCEPT !.target = deleteProperty(@, q), !.didUpdate = didUpdate]

\* Instance.prototype.recursiveDeepCopy over the properties in keys of the
\* source object at prefix: r is [source, target, didUpdate, thrown].
\* Reading .views of the definition of a key the definition does not have
\* throws, which includeAll short-circuits.  A sub-document is always
\* searched, with its own shouldInclude as includeAll, and is deleted from
\* the target when nothing below it was copied.
RECURSIVE recursiveDeepCopy(_, _, _, _, _, _)
recursiveDeepCopy(r, keys, prefix, view, fieldMap, includeAll) ==
    IF keys = {} \/ r.thrown THEN r
    ELSE LET q == CHOOSE k \in keys : TRUE
             step ==
                IF isSkipped(r.source, q) THEN r
                ELSE IF ~includeAll /\ q \notin LeafPaths \cup SubPaths
                THEN [r EXCEPT !.thrown = TRUE]
                ELSE IF q \in SubPaths
                THEN subDocumentCopy(
                         r.didUpdate, q,
                         recursiveDeepCopy(
                             [r EXCEPT !.target[q] = "object", !.didUpdate = FALSE],
                             Properties(r.source, q), q, view, fieldMap,
                             shouldInclude(q, view, fieldMap, includeAll)))
                ELSE IF ~shouldInclude(q, view, fieldMap, includeAll) THEN r
                ELSE [r EXCEPT !.target[q] = r.source[q], !.didUpdate = TRUE]
         IN  recursiveDeepCopy(step, keys \ {q}, prefix, view, fieldMap, includeAll)

\* Instance.prototype.toObject
toObject(d, view, fieldMap) ==
    recursiveDeepCopy([source |-> d, target |-> [p \in DOMAIN d |-> "undefined"],
                       didUpdate |-> FALSE, thrown |-> FALSE],
                      Properties(d, <<>>), <<>>,
                      IF view = "" THEN "default" ELSE view, fieldMap,
                      view = "all")

\* raw data that has no value for any key
NoValues == [p \in LeafPaths \cup SubPaths |-> "undefined"]

\* a call on the handle: its arguments, what it returned (valid of isValid,
\* out of toObject), whether it threw, and for isValid the own properties
\* the handle had when it was called
Walk(op, view, fieldMap, data, isUpdate, valid, out, threw, before) ==
    [op |-> op, view |-> view, fieldMap |-> fieldMap, data |-> data,
     isUpdate |-> isUpdate, valid |-> valid, out |-> out, thrown |-> threw,
     before |-> before]

\* no call was made on the handle yet
NoWalk ==
    Walk("none", "", {}, NoValues, FALSE, TRUE, EmptyDocument, FALSE, EmptyDocument)

-----------------------------------------------------------------------------
(* Instance.js, value by value: reading from and writing to a source instance *)

\* the serialize and deserialize functions of a mapping, inverses of each
\* other: "raw" is the form the source stores of the value "good"
serialize(v) == CASE v = "good" -> "raw" [] v = "raw" -> "good" [] OTHER -> v
deserialize(v) == CASE v = "raw" -> "good" [] v = "good" -> "raw" [] OTHER -> v

\* a source instance that has no field
NoRecord == [p \in LeafPaths |-> "undefined"]

\* Instance.prototype.bindSourceInstanceToSelf: a sub-document of the
\* target is kept or created; a field the record does not have is left
\* alone; a truthy value goes through mapping.deserialize when the mapping
\* has one, and only a truthy result is assigned
RECURSIVE bindSourceInstanceToSelf(_, _, _, _)
bindSourceInstanceToSelf(d, defs, prefix, instance) ==
    IF defs = <<>> THEN d
    ELSE LET def == Head(defs)
             p == prefix \o <<def.key>>
             next ==
                IF isSubDocumentDefinition(def)
                THEN bindSourceInstanceToSelf(
                         IF d[p] = "object" THEN d ELSE freshObject(d, p),
                         def.children, p, instance)
                ELSE IF instance[p] = "undefined" THEN d
                ELSE IF ~Truthy(instance[p]) THEN d
                ELSE [d EXCEPT ![p] = IF "deserialize" \in def.mapping
                                      THEN deserialize(instance[p])
                                      ELSE instance[p]]
         IN  bindSourceInstanceToSelf(next, Tail(defs), prefix, instance)

RECURSIVE mapFieldValues_everyLeaf(_, _, _, _)
mapFieldValues_everyLeaf(instance, leaves, d, meta) ==
    IF leaves = <<>> THEN instance
    ELSE LET l == Head(leaves)
             next ==
                IF d[l.path] = "undefined" THEN instance
                ELSE [instance EXCEPT ![l.path] = d[l.path]]
         IN  mapFieldValues_everyLeaf(next, Tail(leaves), d, meta)

\* instance.set(key, serialized) for every changed leaf, in the loop of
\* Instance.prototype.mapFieldsToSourceInstances: the value goes through
\* mapping.serializer when the mapping has one
RECURSIVE mapFieldValues(_, _, _, _)
mapFieldValues(instance, leaves, d, meta) ==
    IF leaves = <<>> THEN instance
    ELSE LET l == Head(leaves)
             next ==
                IF ~meta[l.path].hasChanged \/ d[l.path] = "undefined"
                THEN instance
                ELSE [instance EXCEPT ![l.path] =
                         IF "serializer" \in l.def.mapping
                         THEN serialize(d[l.path]) ELSE d[l.path]]
         IN  mapFieldValues(next, Tail(leaves), d, meta)

-----------------------------------------------------------------------------
(* AbstractModel.js: the registration of a model *)

\* a model being registered: the names its this.sources declares, the entry
\* that has is_primary ("none" when no entry has), the mapping of one of its
\* fields, the sources added so far and how far the registration got
Setup(declared, primary, field, added, step) ==
    [declared |-> declared, primary |-> primary, field |-> field,
     added |-> added, step |-> step]

\* the model of a run that issues requests: registered with its primary source
Registered ==
    Setup({PrimaryName}, PrimaryName, [source |-> PrimaryName, type |-> FIELD],
          {PrimaryName}, "initialized")

\* AbstractModel.prototype.setFieldOnSources, called by the constructor: for
\* a SUBMODEL_ARRAY or MODEL_REFERENCE mapping it assigns to
\* this.sources[mapping.source].field, a TypeError when there is no entry
setFieldOnSources(s) ==
    IF /\ s.field.type \in {SUBMODEL_ARRAY, MODEL_REFERENCE}
       /\ s.field.source \notin s.declared
    THEN [s EXCEPT !.step = "rejected"]
    ELSE [s EXCEPT !.step = "constructed"]

\* AbstractModel.prototype.addSource: throws for a source this.sources does
\* not declare
addSource(s, name) ==
    IF name \notin s.declared
    THEN [s EXCEPT !.step = "rejected"]
    ELSE [s EXCEPT !.added = @ \cup {name}]

\* AbstractModel.prototype.initialize: sources[i].source.addConnections is a
\* TypeError for a declared source that was not added; primarySource is set
\* from the entry with is_primary; addModelReferenceDefinitions reads
\* this.primarySource.source for a MODEL_REFERENCE field
initialize(s) ==
    IF ~(s.declared \subseteq s.added) THEN [s EXCEPT !.step = "rejected"]
    ELSE IF s.field.type = MODEL_REFERENCE /\ s.primary \notin s.declared
    THEN [s EXCEPT !.step = "rejected"]
    ELSE [s EXCEPT !.step = "initialized"]

-----------------------------------------------------------------------------
(* Instance.js: the barriers of the handles two callers use *)

Callers == {"A", "B"}

\* the entity both callers hold, and the instance Model.read creates for each
Entity == "entity"
Handles == {Entity, "A", "B"}

\* meta.sourceOp as the Instance constructor leaves it
NewSourceOp == [count |-> 0, callback |-> "null", isFailed |-> FALSE, error |-> NoErr]

\* no function was applied alone
NoProbe == [fn |-> "none", args |-> <<>>, result |-> <<>>]

\* no caller has called yet
NoOverlap ==
    [sourceOp |-> [h \in Handles |-> NewSourceOp],
     owner |-> [h \in Handles |-> "none"],
     called |-> {},
     inflight |-> {},
     immediates |-> [h \in Handles |-> 0],
     log |-> <<>>,
     failed |-> {}]

\* the handlers of the barrier run on the sourceOp of one handle
OnHandle(h) == [M EXCEPT !.sourceOp = overlap.sourceOp[h], !.cbLog = <<>>]

\* what a handler that ran on handle h leaves behind: the sourceOp of the
\* handle, and the callback it invoked, which is the one set last on h
Ran(o, h, m) ==
    [o EXCEPT !.sourceOp[h] = m.sourceOp,
              !.log = IF m.cbLog = <<>> THEN @
                      ELSE Append(@, [caller |-> o.owner[h],
                                      err |-> m.cbLog[1].err])]

\* n calls of startSourceOp
RECURSIVE startSourceOps(_, _)
startSourceOps(m, n) ==
    IF n = 0 THEN m ELSE startSourceOps(startSourceOp(m), n - 1)

-----------------------------------------------------------------------------
(* Instance.js: the constraints of a field *)

\* the outcome of validating one field: metadata[i].hasError and lastError,
\* and the constraints whose validator was called
NoFieldError == [hasError |-> FALSE, lastError |-> "none", evaluated |-> <<>>]

\* the loop over the constraints in doDocumentFieldsHaveError that records
\* every failing constraint, so that the last one stays
RECURSIVE checkConstraints_withoutBreak(_, _, _)
checkConstraints_withoutBreak(constraints, failing, r) ==
    IF constraints = <<>> THEN r
    ELSE LET j == Head(constraints)
             r1 == [r EXCEPT !.evaluated = Append(@, j)]
         IN  checkConstraints_withoutBreak(
                 Tail(constraints), failing,
                 IF j \in failing
                 THEN [r1 EXCEPT !.hasError = TRUE, !.lastError = j]
                 ELSE r1)

\* the loop over the constraints of a field in doDocumentFieldsHaveError:
\* the validators are called in the order of the keys; failing are the
\* constraints whose validator throws for the value of the field, and the
\* catch block records the message and breaks
RECURSIVE checkConstraints(_, _, _)
checkConstraints(constraints, failing, r) ==
    IF constraints = <<>> THEN r
    ELSE LET j == Head(constraints)
             r1 == [r EXCEPT !.evaluated = Append(@, j)]
         IN  IF j \in failing
             THEN [r1 EXCEPT !.hasError = TRUE, !.lastError = j]
             ELSE checkConstraints(Tail(constraints), failing, r1)

\* doDocumentFieldsHaveError over fields that hold a value: every field is
\* reset and validated, whatever the fields before it did
validateFields(fields) ==
    [n \in 1..Len(fields) |->
        checkConstraints(fields[n].constraints, fields[n].failing, NoFieldError)]

\* Instance.prototype.recursivelyGetFieldErrors: the lastError of every
\* field that has an error
recursivelyGetFieldErrors(metadata) ==
    [n \in {k \in 1..Len(metadata) : metadata[k].hasError} |->
        metadata[n].lastError]

-----------------------------------------------------------------------------
(* AbstractModel.js and Instance.js: isSubDocumentDefinition on any definition *)

\* typeof v === 'object' for the kinds of value a key of a definition holds
\* ("absent": the definition has no such key)
TypeofObject(kind) == kind \in {"object", "null"}

\* AbstractModel.isSubDocumentDefinition: def is [isArray, keys], keys giving
\* the kind of value of each key; an array of the definitions here is empty
\* (a placeholder such as "oneToManyField": [])
AbstractModel_isSubDocumentDefinition(def) ==
    IF def.isArray THEN FALSE
    ELSE \E i \in DOMAIN def.keys :
            /\ def.keys[i] # "absent"
            /\ TypeofObject(def.keys[i])
            /\ i \notin {"constraints", "views", "mapping"}

\* Instance.prototype.isSubDocumentDefinition
Instance_isSubDocumentDefinition(obj) ==
    IF obj.isArray THEN FALSE
    ELSE \E i \in DOMAIN obj.keys :
            /\ obj.keys[i] # "absent"
            /\ TypeofObject(obj.keys[i])
            /\ i # "constraints" /\ i # "views" /\ i # "mapping"

-----------------------------------------------------------------------------
(* Instance.js: the fields toObject copies *)

\* the leaves Instance.prototype.recursiveDeepCopy copies from an instance
\* on which every field of the definition holds a value: a leaf is copied
\* when includeAll, its views lookup or the fields map says so, and a
\* sub-document is searched with the prefix extended by its key and with its
\* own shouldInclude as includeAll
RECURSIVE copiedLeaves(_, _, _, _, _)
copiedLeaves(defs, prefix, view, fields, includeAll) ==
    IF defs = <<>> THEN {}
    ELSE LET d == Head(defs)
             p == prefix \o <<d.key>>
             include == \/ includeAll
                        \/ ~isSubDocumentDefinition(d) /\ view \in d.views
                        \/ p \in fields
         IN  (IF isSubDocumentDefinition(d)
              THEN copiedLeaves(d.children, p, view, fields, include)
              ELSE IF include THEN {p} ELSE {})
             \cup copiedLeaves(Tail(defs), prefix, view, fields, includeAll)

-----------------------------------------------------------------------------
(* AbstractModel.js: the query of a source *)

\* AbstractModel.prototype.QUERY_OPTIONS.IGNORE
IGNORE == "__query_ignore_field__"

\* getQueryForSource in which a parameter of the caller replaces the preset
getQueryForSource_callerWins(defaults, customParams) ==
    [i \in DOMAIN customParams |->
        IF customParams[i] # "absent" /\ defaults[i] # IGNORE THEN customParams[i]
        ELSE IF defaults[i] # IGNORE THEN defaults[i]
        ELSE "absent"]

\* AbstractModel.prototype.getQueryForSource: defaults is
\* this.query[queryName][sourceName], or {} when there is none; a key that a
\* map does not have is "absent".  The parameters of the caller are copied
\* unless the preset ignores them, then the preset is copied over them.
getQueryForSource(defaults, customParams) ==
    LET copied == [i \in DOMAIN customParams |->
                      IF customParams[i] # "absent" /\ defaults[i] # IGNORE
                      THEN customParams[i] ELSE "absent"]
    IN  [j \in DOMAIN defaults |->
            IF defaults[j] # "absent" /\ defaults[j] # IGNORE
            THEN defaults[j] ELSE copied[j]]

-----------------------------------------------------------------------------
(* The models and the calls of the runs *)

\* the source registries of the models under test; the primary is always there
Registries ==
    { {"posts"},
      {"posts", "accounts"},
      {"posts", "accounts", "social"},
      {"posts", "comments"},
      {"posts", "authors"},
      {"posts", "accounts", "authors"},
      {"posts", "accounts", "comments", "authors"},
      {"posts", "search"} }

\* the deprecated scheme has tables and sub-models only
DeprecatedRegistries ==
    {reg \in Registries : reg \subseteq {"posts", "accounts", "social", "comments"}}

\* named: the entries of this.sources carry a "name" property (the README's
\* entries have relationship, is_primary and foreign_key only)
Models ==
    [isNextGenModel : {TRUE}, registered : Registries, named : BOOLEAN]
    \cup [isNextGenModel : {FALSE}, registered : DeprecatedRegistries,
           named : {FALSE}]

Views == {"all", "default", "summary"}

\* options.fields: the explicitly included field paths
FieldLists ==
    { {}, {<<"email">>}, {<<"profile">>}, {<<"profile", "bio">>},
      {<<"profile", "social">>}, {<<"profile", "social", "handle">>} }

\* the data of create and update: the fields given and those with a value
\* that fails a constraint
Payload(fields, bad) == [fields |-> fields, bad |-> bad]

NoData == Payload({}, {})

Payloads ==
    { NoData,
      Payload({<<"title">>}, {}),
      Payload({<<"title">>}, {<<"title">>}),
      Payload({<<"title">>, <<"author">>}, {}),
      Payload({<<"title">>, <<"email">>}, {}),
      Payload({<<"email">>, <<"profile", "social", "handle">>}, {}),
      Payload({<<"title">>, <<"email">>, <<"profile", "social", "handle">>}, {}),
      Payload({<<"title">>, <<"email">>}, {<<"email">>}),
      Payload({<<"title">>, <<"comments">>}, {}) }

\* the options of a list call: should_include_meta, sort_order ("" when the
\* caller gives none), limit and offset (0 when the caller gives none)
ListOptions(meta, sort_order, limit, offset) ==
    [should_include_meta |-> meta, sort_order |-> sort_order,
     limit |-> limit, offset |-> offset]

NoListOptions == ListOptions(FALSE, "", 0, 0)

Request(op, view, fields, resolve, data) ==
    [op |-> op, view |-> view, fields |-> fields,
     should_resolve_references |-> resolve, data |-> data,
     options |-> NoListOptions]

ListRequest(view, options) ==
    [Request("list", view, {}, FALSE, NoData) EXCEPT !.options = options]

Requests ==
    {Request("read", v, f, r, NoData) : v \in Views, f \in FieldLists, r \in BOOLEAN}
    \cup {Request(op, "all", {}, FALSE, d) : op \in {"create", "update"}, d \in Payloads}
    \cup {Request("delete", "all", {}, FALSE, NoData)}
    \cup {ListRequest(v, ListOptions(meta, so, limit, 0)) :
             v \in {"all", "default"}, meta \in BOOLEAN,
             so \in {"", "ASC", "DESC", "BOGUS"}, limit \in {0, MaxListed}}

Init ==
    /\ model \in Models
    /\ request \in Requests
    /\ model.isNextGenModel \/ request.op \notin {"create", "list"}
    /\ model.named => request.op = "create"
    /\ pc = "idle"
    /\ sourceOp = [count |-> 0, callback |-> "null", isFailed |-> FALSE, error |-> NoErr]
    /\ inflight = {}
    /\ issued = <<>>
    /\ immediates = 0
    /\ cbLog = <<>>
    /\ inst = NewInstance
    /\ pending = <<>>
    /\ results = {}
    /\ thrown = FALSE
    /\ listed = NoList
    /\ doc = EmptyDocument
    /\ fieldMeta = NewFieldMetadata
    /\ walk = NoWalk
    /\ record = NoRecord
    /\ setup = Registered
    /\ overlap = NoOverlap
    /\ probe = NoProbe

-----------------------------------------------------------------------------
(* The steps *)

\* what the adapter can report for a call; a count reports its number and a
\* list of the primary source the number of its records in the id
Outcomes(c) ==
    LET errors == {Outcome("err", e, 0, 0) : e \in AdapterErrors}
        primary == SourceInfo(c.src).is_primary
    IN  CASE c.method = "count"
             \/ c.closure = "generateListFromSourceCallback" ->
                {Outcome("ok", NoErr, n, 0) : n \in 0..MaxListed} \cup errors
          [] c.method \in {"read", "readOne"} ->
                (IF primary
                 THEN {Outcome("ok", NoErr, c.arg, a) : a \in 0..MaxId}
                 ELSE {Outcome("ok", NoErr, c.arg, 0)})
                \cup {Outcome("null", NoErr, 0, 0)} \cup errors
          [] c.method = "list" /\ c.closure # "generateListFromSourceCallback" ->
                {Outcome("ok", NoErr, c.arg, 0)} \cup errors
          [] c.method = "save" ->
                (IF c.closure = "generateDependentSourcesClosure"
                      \/ (primary /\ request.op = "create")
                 THEN {Outcome("ok", NoErr, i, 0) : i \in 1..MaxId}
                 ELSE {Outcome("ok", NoErr, c.arg, IF primary THEN inst.author ELSE 0)})
                \cup errors
          [] OTHER -> {Outcome("ok", NoErr, 0, 0)} \cup errors

\* the closure that was given to the adapter runs with the outcome
RunClosure(m, c, o) ==
    CASE c.closure = "generateSourceReadClosure" ->
            generateSourceReadClosure(m, SourceInfo(c.src), o)
      [] c.closure = "generateSourceReadManyClosure" ->
            generateSourceReadManyClosure(m, SourceInfo(c.src).field, o)
      [] c.closure = "generateOneToOneReadClosure" ->
            generateOneToOneReadClosure(m, SourceInfo(c.src), o)
      [] c.closure = "generateOneToManyReadClosure" ->
            generateOneToManyReadClosure(m, SourceInfo(c.src).field, o)
      [] c.closure = "generateSubmodelReferenceClosure" ->
            generateSubmodelReferenceClosure(m, SourceInfo(c.src).field, o)
      [] c.closure = "generateDependentSourcesClosure" ->
            generateDependentSourcesClosure(m, o)
      [] c.closure = "generateSourceCreateCallback" ->
            generateSourceCreateCallback(m, c.src, o)
      [] c.closure = "generateGetListDataCallback" ->
            generateGetListDataCallback(m, c, o)
      [] c.closure = "generateListFromSourceCallback" ->
            generateListFromSourceCallback(m, c, o)
      [] c.closure = "destroyRecord" -> destroyRecord(m, o)
      [] c.closure = "deletePrimaryRecord" -> deletePrimaryRecord(m, o)

Start(m) ==
    /\ pc = "idle"
    /\ pc' = "running"
    /\ Commit(m)
    /\ UNCHANGED <<model, request>>

\* AbstractModel.prototype.read, of either scheme
ModelRead ==
    /\ request.op = "read"
    /\ Start(IF model.isNextGenModel
             THEN read(M, request.view, request.fields,
                       IF request.should_resolve_references
                       THEN "generateResolveReferencesCallback" ELSE "callback")
             ELSE read_deprecated(M, "callback"))

\* AbstractModel.prototype.list
ModelList ==
    /\ request.op = "list"
    /\ Start(list(M, request.options))

\* AbstractModel.prototype.create
ModelCreate ==
    /\ request.op = "create"
    /\ Start(create(bind([M EXCEPT !.inst = NewInstance], request.data, TRUE)))

\* AbstractModel.prototype.update, of either scheme
ModelUpdate ==
    /\ request.op = "update"
    /\ Start(IF model.isNextGenModel
             THEN read(M, "all", {}, "modelUpdateCallback")
             ELSE read_deprecated(M, "modelUpdateCallback"))

\* AbstractModel.prototype.delete, of either scheme
ModelDelete ==
    /\ request.op = "delete"
    /\ Start(IF model.isNextGenModel
             THEN read(M, "all", {}, "modelDeleteCallback")
             ELSE read_deprecated(M, "modelDeleteCallback"))

\* an adapter calls back: the calls in flight complete in any order
AdapterCallback ==
    /\ pc = "running"
    /\ \E c \in inflight : \E o \in Outcomes(c) :
          Commit(RunClosure([M EXCEPT !.inflight = @ \ {c},
                                      !.results = @ \cup {[call |-> c, outcome |-> o]}],
                            c, o))
    /\ UNCHANGED <<model, request, pc>>

\* a closure given to setImmediate runs
RunImmediate ==
    /\ pc = "running"
    /\ immediates > 0
    /\ Commit(guaranteedOp([M EXCEPT !.immediates = @ - 1]))
    /\ UNCHANGED <<model, request, pc>>

Next ==
    \/ ModelList
    \/ ModelRead
    \/ ModelCreate
    \/ ModelUpdate
    \/ ModelDelete
    \/ AdapterCallback
    \/ RunImmediate

Spec == Init /\ [][Next]_vars

TypeOK ==
    /\ pc \in {"idle", "running"}
    /\ sourceOp.count \in Int
    /\ immediates \in 0..1
    /\ thrown \in BOOLEAN

-----------------------------------------------------------------------------
(* The calls on an instance handle *)

\* the raw data a caller binds: a value, or none, for each key of the
\* definition; a sub-document's leaves have values only inside an object
DataValues(p) ==
    CASE p = <<"id">> -> {"undefined", "good"}
      [] p = <<"title">> -> {"undefined", "good", "bad"}
      [] p = <<"status">> -> {"undefined"}
      [] p = <<"profile">> -> {"undefined", "object"}
      [] p = <<"profile", "bio">> -> {"undefined", "falsy", "good"}

Datas ==
    {data \in [LeafPaths \cup SubPaths -> {"undefined", "null", "falsy", "good",
                                           "bad", "object"}] :
        /\ \A p \in DOMAIN data : data[p] \in DataValues(p)
        /\ \A p \in DOMAIN data : \A s \in SubPaths :
              IsChild(s, p) /\ data[s] # "object" => data[p] = "undefined"}

\* the views and the fields maps toObject is called with ("" is no view)
DocumentViews == {"", "all", "default", "summary"}
FieldMaps == { {}, {<<"title">>}, {<<"status">>}, {<<"profile">>},
               {<<"profile", "bio">>} }

\* the variables of the operations of a model, which no call on the handle
\* changes
engine == <<model, request, pc, sourceOp, inflight, issued, immediates, cbLog,
            inst, pending, results, thrown, listed>>

\* instance.bind(data, isUpdate)
Bind ==
    \E data \in Datas, isUpdate \in BOOLEAN :
        LET o == bindDocument(doc, fieldMeta, data, isUpdate)
        IN  /\ doc' = o.doc
            /\ fieldMeta' = o.meta
            /\ walk' = Walk("bind", "", {}, data, isUpdate, TRUE, EmptyDocument, FALSE,
                            EmptyDocument)
            /\ UNCHANGED <<record, engine, setup, overlap, probe>>

\* the caller assigns a property the definition does not have
SetProperty ==
    \E p \in ExtraPaths :
        /\ IsObject(doc, SubSeq(p, 1, Len(p) - 1))
        /\ doc' = [doc EXCEPT ![p] = "good"]
        /\ walk' = Walk("set", "", {}, NoValues, FALSE, TRUE, EmptyDocument, FALSE,
                        EmptyDocument)
        /\ UNCHANGED <<fieldMeta, record, engine, setup, overlap, probe>>

\* instance.isValid()
IsValid ==
    LET o == validateDocument(doc, fieldMeta)
    IN  /\ doc' = IF o.thrown THEN doc ELSE o.doc
        /\ fieldMeta' = IF o.thrown THEN fieldMeta ELSE o.meta
        /\ walk' = Walk("isValid", "", {}, NoValues, FALSE, ~o.hasError,
                        EmptyDocument, o.thrown, doc)
        /\ UNCHANGED <<record, engine, setup, overlap, probe>>

\* instance.toObject(view, fields)
ToObject ==
    \E view \in DocumentViews, fieldMap \in FieldMaps :
        LET r == toObject(doc, view, fieldMap)
        IN  /\ walk' = Walk("toObject", view, fieldMap, NoValues, FALSE, TRUE,
                            IF r.thrown THEN EmptyDocument ELSE r.target, r.thrown,
                            EmptyDocument)
            /\ UNCHANGED <<doc, fieldMeta, record, engine, setup, overlap, probe>>

DocumentInit ==
    /\ model = [isNextGenModel |-> TRUE, registered |-> {PrimaryName},
                named |-> FALSE]
    /\ request = Request("none", "all", {}, FALSE, NoData)
    /\ pc = "handle"
    /\ sourceOp = [count |-> 0, callback |-> "null", isFailed |-> FALSE, error |-> NoErr]
    /\ inflight = {}
    /\ issued = <<>>
    /\ immediates = 0
    /\ cbLog = <<>>
    /\ inst = NewInstance
    /\ pending = <<>>
    /\ results = {}
    /\ thrown = FALSE
    /\ listed = NoList
    /\ doc = EmptyDocument
    /\ fieldMeta = NewFieldMetadata
    /\ walk = NoWalk
    /\ record = NoRecord
    /\ setup = Registered
    /\ overlap = NoOverlap
    /\ probe = NoProbe

DocumentNext ==
    \/ Bind
    \/ SetProperty
    \/ IsValid
    \/ ToObject

DocumentSpec == DocumentInit /\ [][DocumentNext]_vars

-----------------------------------------------------------------------------
(* The handle between a source and the caller *)

\* the records a source hands back: the stored form of bio is "raw", or a
\* falsy value
Records ==
    {[NoRecord EXCEPT ![<<"id">>] = "good", ![<<"title">>] = "good",
                      ![<<"profile", "bio">>] = v] : v \in {"raw", "falsy"}}

\* instance.bindFromSourceInstance(source, record)
BindFromSourceInstance ==
    \E instance \in Records :
        /\ record' = instance
        /\ doc' = bindSourceInstanceToSelf(doc, DocumentDefinition, <<>>, instance)
        /\ walk' = Walk("bindFromSourceInstance", "", {}, NoValues, FALSE, TRUE,
                        EmptyDocument, FALSE, doc)
        /\ UNCHANGED <<fieldMeta, engine, setup, overlap, probe>>

\* instance.update(callback) up to the values set on the source instance:
\* an invalid entity is handed back with its errors and nothing is written
UpdateValues ==
    LET o == validateDocument(doc, fieldMeta)
    IN  /\ ~o.thrown
        /\ doc' = o.doc
        /\ fieldMeta' = o.meta
        /\ record' = IF o.hasError THEN record
                     ELSE mapFieldValues(record, DocumentLeaves, o.doc, o.meta)
        /\ walk' = Walk("update", "", {}, NoValues, FALSE, ~o.hasError,
                        EmptyDocument, FALSE, doc)
        /\ UNCHANGED <<engine, setup, overlap, probe>>

SourceNext ==
    \/ Bind
    \/ BindFromSourceInstance
    \/ UpdateValues

SourceSpec == DocumentInit /\ [][SourceNext]_vars

-----------------------------------------------------------------------------
(* The registration of a model *)

SourceNames == {"posts", "accounts"}

\* the models an application may write: posts is declared alone or with
\* accounts, is_primary is on posts or on no entry, and a field is mapped to
\* a declared source or to one that is not declared
Setups ==
    {Setup(declared, primary, [source |-> source, type |-> type], {}, "declared") :
        declared \in {{"posts"}, {"posts", "accounts"}},
        primary \in {"posts", "none"},
        source \in SourceNames \cup {"ghost"},
        type \in {FIELD, SUBMODEL_ARRAY, MODEL_REFERENCE}}

\* new Model()
Construct ==
    /\ setup.step = "declared"
    /\ setup' = setFieldOnSources(setup)
    /\ UNCHANGED <<engine, handle, overlap, probe>>

\* model.addSource(source)
AddSource ==
    \E name \in SourceNames :
        /\ setup.step = "constructed"
        /\ name \notin setup.added
        /\ setup' = addSource(setup, name)
        /\ UNCHANGED <<engine, handle, overlap, probe>>

\* model.initialize()
Initialize ==
    /\ setup.step = "constructed"
    /\ setup' = initialize(setup)
    /\ UNCHANGED <<engine, handle, overlap, probe>>

RegistrationInit ==
    /\ model = [isNextGenModel |-> TRUE, registered |-> {PrimaryName},
                named |-> FALSE]
    /\ request = Request("none", "all", {}, FALSE, NoData)
    /\ pc = "registration"
    /\ sourceOp = [count |-> 0, callback |-> "null", isFailed |-> FALSE, error |-> NoErr]
    /\ inflight = {}
    /\ issued = <<>>
    /\ immediates = 0
    /\ cbLog = <<>>
    /\ inst = NewInstance
    /\ pending = <<>>
    /\ results = {}
    /\ thrown = FALSE
    /\ listed = NoList
    /\ doc = EmptyDocument
    /\ fieldMeta = NewFieldMetadata
    /\ walk = NoWalk
    /\ record = NoRecord
    /\ setup \in Setups
    /\ overlap = NoOverlap
    /\ probe = NoProbe

RegistrationNext ==
    \/ Construct
    \/ AddSource
    \/ Initialize

RegistrationSpec == RegistrationInit /\ [][RegistrationNext]_vars

-----------------------------------------------------------------------------
(* Two callers at once *)

MaxSubOps == 2

\* Model.read(params, options, callback) by caller c: a new instance, the
\* callback set on it, and one adapter read per selected source
ReadCall ==
    \E c \in Callers, n \in 1..MaxSubOps :
        /\ c \notin overlap.called
        /\ LET m == startSourceOps(setSourceOpCallback(OnHandle(c), "callback"), n)
               o == [overlap EXCEPT !.owner[c] = c,
                                    !.called = @ \cup {c},
                                    !.inflight = @ \cup
                                        {[caller |-> c, handle |-> c, n |-> k] :
                                            k \in 1..n}]
           IN  overlap' = Ran(o, c, m)
        /\ UNCHANGED <<engine, handle, setup, probe>>

\* entity.update(callback) by caller c on the entity both callers hold: the
\* callback is set, a save is dispatched for every dirty source instance and
\* a closure is handed to setImmediate
UpdateCall ==
    \E c \in Callers, n \in 0..MaxSubOps - 1 :
        /\ c \notin overlap.called
        /\ LET m == startSourceOps(setSourceOpCallback(OnHandle(Entity), "callback"), n)
               o == [overlap EXCEPT !.owner[Entity] = c,
                                    !.called = @ \cup {c},
                                    !.immediates[Entity] = @ + 1,
                                    !.inflight = @ \cup
                                        {[caller |-> c, handle |-> Entity, n |-> k] :
                                            k \in 1..n}]
           IN  overlap' = Ran(o, Entity, m)
        /\ UNCHANGED <<engine, handle, setup, probe>>

\* an adapter calls back: the closure of generateSourceReadClosure for a
\* read, the one of generateSourceCreateCallback for a save
SubOpCallback ==
    \E call \in overlap.inflight, ok \in BOOLEAN :
        LET h == call.handle
            o == [overlap EXCEPT !.inflight = @ \ {call},
                                 !.failed = IF ok THEN @ ELSE @ \cup {call.caller}]
            m == IF h # Entity /\ isSourceOpFailed(OnHandle(h)) THEN OnHandle(h)
                 ELSE IF ~ok THEN failSourceOp(OnHandle(h), AdapterError("OTHER"))
                 ELSE finishSourceOp(OnHandle(h))
        IN  /\ overlap' = Ran(o, h, m)
            /\ UNCHANGED <<engine, handle, setup, probe>>

\* the closure update() handed to setImmediate runs
DeferredOp ==
    \E h \in Handles :
        /\ overlap.immediates[h] > 0
        /\ overlap' = Ran([overlap EXCEPT !.immediates[h] = @ - 1], h,
                          guaranteedOp(OnHandle(h)))
        /\ UNCHANGED <<engine, handle, setup, probe>>

OverlapNext ==
    \/ ReadCall
    \/ UpdateCall
    \/ SubOpCallback
    \/ DeferredOp

OverlapSpec == DocumentInit /\ [][OverlapNext]_vars

-----------------------------------------------------------------------------
(* Functions of the library applied alone *)

ConstraintNames == {"len", "isIn", "isEmail"}

MaxConstraints == 2

\* the constraints of a field in declaration order, with the constraints
\* that the value of the field fails
ConstrainedFields ==
    {[constraints |-> c, failing |-> f] :
        c \in {s \in UNION {[1..k -> ConstraintNames] : k \in 0..MaxConstraints} :
                  \A a, b \in DOMAIN s : a # b => s[a] # s[b]},
        f \in SUBSET ConstraintNames} 

\* isValid() followed by getErrors() on an instance of two fields
ValidateFields ==
    \E f1, f2 \in {f \in ConstrainedFields :
                      f.failing \subseteq {f.constraints[k] : k \in DOMAIN f.constraints}} :
        LET metadata == validateFields(<<f1, f2>>)
        IN  /\ probe = NoProbe
            /\ probe' = [fn |-> "isValid", args |-> <<f1, f2>>,
                         result |-> <<metadata, recursivelyGetFieldErrors(metadata)>>]
            /\ UNCHANGED <<engine, handle, setup, overlap>>

\* the definitions an application may write: a type, the three keys that
\* describe a field, and one more key (a child of a sub-document, or an
\* attribute of a field such as defaultValue), each absent or holding a
\* string, an object or null
DefinitionKeys == {"type", "constraints", "views", "mapping", "other"}

AnyDefinitions ==
    [isArray : {FALSE},
     keys : [DefinitionKeys -> {"absent", "string", "object", "null"}]]
    \cup {[isArray |-> TRUE, keys |-> [k \in DefinitionKeys |-> "absent"]]}

\* both implementations applied to one definition
IsSubDocumentDefinition ==
    \E def \in AnyDefinitions :
        /\ probe = NoProbe
        /\ probe' = [fn |-> "isSubDocumentDefinition", args |-> <<def>>,
                     result |-> <<AbstractModel_isSubDocumentDefinition(def),
                                  Instance_isSubDocumentDefinition(def)>>]
        /\ UNCHANGED <<engine, handle, setup, overlap>>

\* the keys of a query, the parameters a caller gives and the presets a
\* model declares for a source
QueryKeys == {"id", "user_id", "status"}
CustomParams == [QueryKeys -> {"absent", "given"}]
QueryDefaults == [QueryKeys -> {"absent", "preset", IGNORE}]

\* model.getQueryForSource(queryName, customParams, sourceName); the result
\* is kept with the parameter map as the call left it
GetQueryForSource ==
    \E defaults \in QueryDefaults, customParams \in CustomParams :
        /\ probe = NoProbe
        /\ probe' = [fn |-> "getQueryForSource",
                     args |-> <<defaults, customParams>>,
                     result |-> <<getQueryForSource(defaults, customParams),
                                  customParams>>]
        /\ UNCHANGED <<engine, handle, setup, overlap>>

FunctionNext ==
    \/ ValidateFields
    \/ IsSubDocumentDefinition
    \/ GetQueryForSource

FunctionSpec == DocumentInit /\ [][FunctionNext]_vars

-----------------------------------------------------------------------------
(* Vocabulary of the properties *)

IssuedCalls == {issued[i] : i \in 1..Len(issued)}

\* nothing is in flight and nothing is deferred: the run can take no step
Quiescent == pc = "running" /\ inflight = {} /\ immediates = 0

\* the adapter methods that fetch, as opposed to those that write
ReadMethods == {"read", "readOne", "list"}

FirstPassClosures ==
    {"generateSourceReadClosure", "generateSourceReadManyClosure",
     "generateOneToOneReadClosure", "generateOneToManyReadClosure"}

\* a call of the first read pass reported an error, or the primary no record
FirstPassFailed ==
    \E r \in results :
        /\ r.call.closure \in FirstPassClosures
        /\ \/ r.outcome.status = "err"
           \/ r.outcome.status = "null" /\ r.call.src = PrimaryName

\* the primary source answered the read with no record
PrimaryReturnedNull ==
    \E r \in results :
        /\ r.call.src = PrimaryName
        /\ r.call.closure \in FirstPassClosures
        /\ r.outcome.status = "null"

Failures == {r \in results : r.outcome.status = "err"}

-----------------------------------------------------------------------------
(* C1 *)

\* C1: for a Model.read call, whatever the order in which the dispatched
\* sub-operations of both passes succeed or fail, the caller's callback is
\* invoked at most once.
C1_ReadCallbackAtMostOnce == request.op = "read" => Len(cbLog) <= 1

\* a read of which two sub-operations failed and whose callback ran once
C1_Witness ==
    /\ request.op = "read"
    /\ Cardinality(Failures) >= 2
    /\ inflight = {}
    /\ Len(cbLog) = 1

-----------------------------------------------------------------------------
(* C2 *)

\* C2: every Model.read call eventually invokes the caller's callback, for
\* every registry, view, field list and value of should_resolve_references:
\* a read that has nothing left in flight or deferred has called back.
C2_ReadCompletes == (request.op = "read" /\ Quiescent) => Len(cbLog) >= 1

-----------------------------------------------------------------------------
(* C3 *)

SavedPrimary ==
    {r \in results : /\ r.call.src = PrimaryName
                     /\ r.call.method = "save"
                     /\ r.outcome.status = "ok"}

DependentSaves ==
    {c \in IssuedCalls : c.method = "save" /\ c.src # PrimaryName}

\* C3: in create, a save of a dependent source instance is dispatched only
\* after the primary's save has called back successfully, and the dependent
\* carries the primary's generated id as its foreign key when it is saved.
C3_DependentsAfterPrimary ==
    request.op = "create" =>
        \A c \in DependentSaves : \E r \in SavedPrimary : c.arg = r.outcome.id

\* a create that saved the primary and dispatched the saves of two dependents
C3_Witness ==
    /\ request.op = "create"
    /\ SavedPrimary # {}
    /\ Cardinality(DependentSaves) = 2

-----------------------------------------------------------------------------
(* C4 *)

\* C4 as stated: when Model.read is called with view 'all' and the primary
\* source returns no record, the callback receives a 404 error and no read or
\* list was dispatched to a non-primary source.
C4_NoSecondaryReadOn404 ==
    (request.op = "read" /\ request.view = "all" /\ PrimaryReturnedNull) =>
        /\ \E i \in 1..Len(cbLog) : cbLog[i].err.code = "404"
        /\ \A c \in IssuedCalls : c.src = PrimaryName

\* C4, amended: when Model.read is called with view 'all' and the primary
\* source returns no record, the callback is invoked exactly once, with an
\* error: the 404 not-found error, unless the failure of a secondary read
\* was latched first; no reference-resolution read is dispatched.  The
\* secondary reads of the first pass are dispatched together with the primary's.
C4_NotFoundReportedOnce ==
    (request.op = "read" /\ request.view = "all" /\ PrimaryReturnedNull) =>
        /\ Len(cbLog) = 1
        /\ cbLog[1].err # NoErr
        /\ \/ cbLog[1].err = NotFound
           \/ \E r \in Failures : r.call.src # PrimaryName
        /\ \A c \in IssuedCalls : c.closure # "generateSubmodelReferenceClosure"

\* the primary returned no record while a secondary read was in flight, and
\* the callback received the not-found error
C4_Witness ==
    /\ request.op = "read"
    /\ request.view = "all"
    /\ model.isNextGenModel
    /\ PrimaryReturnedNull
    /\ \E c \in IssuedCalls : c.src # PrimaryName
    /\ cbLog = << [err |-> NotFound, value |-> "null"] >>

-----------------------------------------------------------------------------
(* C5 *)

LeafSet == {Leaves(Definition, <<>>)[n] : n \in 1..Len(Leaves(Definition, <<>>))}

\* the first read pass called the adapter of the source
Queried(name) ==
    \E c \in IssuedCalls : c.src = name /\ c.closure \in FirstPassClosures

\* the view is 'all', or a field mapped to the source is in the view or is
\* named by its full path in the field list
Selected(name) ==
    \/ request.view = "all"
    \/ \E l \in LeafSet :
          /\ l.def.source = name
          /\ \/ request.view \in l.def.views
             \/ l.path \in request.fields

\* the bindings Model.read queries in its first pass when they are selected
FirstPassBindings ==
    {Sources[n] : n \in {k \in 1..Len(Sources) :
        Sources[k].relationship \in {ONE_TO_ONE, ONE_TO_MANY}}}

\* C5: in Model.read the primary binding is always queried, and a non-primary
\* binding is queried if and only if the view is 'all', or the view is in the
\* views of one of its fields, or the field list names the full path of one
\* of its fields; stated for the field lists that name leaves only.
C5_SourceSelection ==
    (/\ request.op = "read"
     /\ model.isNextGenModel
     /\ pc = "running"
     /\ \A f \in request.fields : \E l \in LeafSet : l.path = f) =>
        /\ Queried(PrimaryName)
        /\ \A s \in FirstPassBindings :
              ~s.is_primary => (Queried(s.name) <=> Selected(s.name))

-----------------------------------------------------------------------------
(* C6 *)

ReferenceReads ==
    {c \in IssuedCalls : c.closure = "generateSubmodelReferenceClosure"}

\* the first pass of a read that resolves references settled with success:
\* the barrier's callback is no longer the resolver and no call of the pass failed
FirstPassSucceeded ==
    /\ request.op = "read"
    /\ model.isNextGenModel
    /\ request.should_resolve_references
    /\ pc = "running"
    /\ sourceOp.callback # "generateResolveReferencesCallback"
    /\ ~FirstPassFailed

\* the id the primary record holds in the reference field
ReferenceId ==
    LET r == CHOOSE x \in results :
                 x.call.src = PrimaryName /\ x.call.closure \in FirstPassClosures
    IN  r.outcome.author

ReferenceBindings ==
    {Sources[n] : n \in {k \in 1..Len(Sources) :
        /\ Sources[k].relationship = ONE_TO_ONE_REF
        /\ shouldReadFromSource(Sources[k], request.view, request.fields,
                                Definition, <<>>, FALSE)}}

\* the ordinal positions in the dispatch order of the calls to a source
CallsTo(name) == {i \in 1..Len(issued) : issued[i].src = name}

\* C6: no reference binding is read during the first pass; a reference read
\* is dispatched only after the first pass settled with success and only when
\* should_resolve_references is set; then every selected reference binding
\* whose field holds an id is read exactly once, with that id as the key, and
\* one whose field holds none is not read.
C6_ReferencesDeferred ==
    request.op = "read" =>
        /\ \A c \in IssuedCalls :
              SourceInfo(c.src).relationship = ONE_TO_ONE_REF =>
                  c.closure = "generateSubmodelReferenceClosure"
        /\ ReferenceReads # {} => FirstPassSucceeded
        /\ FirstPassSucceeded =>
              \A s \in ReferenceBindings :
                  IF ReferenceId # 0
                  THEN /\ Cardinality(CallsTo(s.name)) = 1
                       /\ \A i \in CallsTo(s.name) : issued[i].arg = ReferenceId
                  ELSE CallsTo(s.name) = {}

\* the reference was read with the id of the primary record after a secondary
\* read of the first pass had completed, and the callback ran
C6_Witness ==
    /\ FirstPassSucceeded
    /\ \E r \in results : r.call.src = "accounts"
    /\ \E r \in results : /\ r.call \in ReferenceReads
                          /\ r.call.arg = ReferenceId
                          /\ r.outcome.status = "ok"
    /\ inst.resolved = "object"
    /\ Len(cbLog) = 1

-----------------------------------------------------------------------------
(* C7 *)

Destroys == {c \in IssuedCalls : c.method = "destroy"}

\* the calls the adapters answered with success
SucceededCalls == {r.call : r \in {x \in results : x.outcome.status = "ok"}}

\* the read that precedes update and delete handed over a complete instance
ReadSucceeded ==
    /\ pc = "running"
    /\ sourceOp.callback \notin {"modelUpdateCallback", "modelDeleteCallback"}
    /\ ~FirstPassFailed

\* the non-primary records the read bound to the instance
BoundDependents ==
    {inst.instances[n].name : n \in {k \in 1..Len(inst.instances) :
        inst.instances[k].name # PrimaryName /\ inst.instances[k].record = "ok"}}

\* C7: in delete, the destroy of the primary source instance is dispatched
\* only after the destroy of every bound non-primary source instance has
\* completed successfully; if a dependent destroy fails, the primary is never
\* destroyed and the callback receives the error once.
C7_PrimaryDestroyedLast ==
    request.op = "delete" =>
        /\ (\E c \in Destroys : c.src = PrimaryName) =>
              \A name \in BoundDependents :
                  \E c \in Destroys \cap SucceededCalls : c.src = name
        /\ (\E r \in Failures : r.call.method = "destroy" /\ r.call.src # PrimaryName) =>
              /\ \A c \in Destroys : c.src # PrimaryName
              /\ Len(cbLog) = 1
              /\ cbLog[1].err # NoErr

\* two dependents were destroyed, then the primary, and the callback ran
C7_Witness ==
    /\ request.op = "delete"
    /\ Cardinality(BoundDependents) = 2
    /\ \E c \in Destroys \cap SucceededCalls : c.src = PrimaryName
    /\ cbLog = << [err |-> NoErr, value |-> "true"] >>

-----------------------------------------------------------------------------
(* C8 *)

\* C8: Model.delete on an entity whose primary record exists invokes the
\* callback exactly once, and when the callback reports success the primary
\* source instance and every bound non-primary source instance have been
\* destroyed; for the sources-registry scheme as for the deprecated scheme.
\* A delete that has nothing left in flight has therefore called back.
C8_DeleteCompletes ==
    (request.op = "delete" /\ ReadSucceeded) =>
        /\ Len(cbLog) <= 1
        /\ Quiescent => Len(cbLog) = 1
        /\ (Len(cbLog) = 1 /\ cbLog[1].err = NoErr) =>
              /\ \E c \in Destroys \cap SucceededCalls : c.src = PrimaryName
              /\ \A name \in BoundDependents :
                    \E c \in Destroys \cap SucceededCalls : c.src = name

-----------------------------------------------------------------------------
(* C9 *)

\* C9: in create, if the primary save succeeds and a dependent save then
\* fails, the callback is invoked exactly once, with an error, and no remove
\* or destroy is issued against any record.
C9_PartialWriteReportedOnce ==
    (/\ request.op = "create"
     /\ SavedPrimary # {}
     /\ \E r \in Failures : r.call \in DependentSaves) =>
        /\ Len(cbLog) = 1
        /\ cbLog[1].err # NoErr
        /\ \A c \in IssuedCalls : c.method \notin {"destroy", "remove"}

\* the save of one dependent succeeded and the save of another failed
C9_Witness ==
    /\ request.op = "create"
    /\ SavedPrimary # {}
    /\ \E r \in Failures : r.call \in DependentSaves
    /\ \E c \in DependentSaves \cap SucceededCalls : TRUE
    /\ Len(cbLog) = 1

-----------------------------------------------------------------------------
(* C10 *)

ValidationReported == cbLog = << [err |-> ValidationError, value |-> "undefined"] >>

\* C10 as stated: for create and update, when the bound data fails validation
\* the callback receives the validation error exactly once and no source
\* adapter call has been made for the operation.
C10_NoAdapterCallWhenInvalid ==
    (request.op \in {"create", "update"} /\ inst.hasError) =>
        /\ ValidationReported
        /\ issued = <<>>

\* C10, amended: for create and update, when the bound data fails validation
\* the callback receives the validation error exactly once; create has made
\* no source adapter call, and the only adapter calls of update are the reads
\* of the entity that Model.update makes before it binds the data: no
\* createInstance, save, flush or remove is made.
C10_InvalidDataIsNotWritten ==
    (request.op \in {"create", "update"} /\ inst.hasError) =>
        /\ ValidationReported
        /\ request.op = "create" => issued = <<>>
        /\ \A c \in IssuedCalls : c.method \in ReadMethods

\* an update with invalid data, after the reads of two sources
C10_Witness ==
    /\ request.op = "update"
    /\ inst.hasError
    /\ ValidationReported
    /\ Len(issued) = 2

-----------------------------------------------------------------------------
(* C11 *)

\* the save calls made so far, by their place in the dispatch order
SaveIndexes == {i \in 1..Len(issued) : issued[i].method = "save"}

\* the sources that own a changed field of the entity (a field without a
\* mapping belongs to the primary source)
ChangedOwners ==
    LET updated == getUpdatedFields(M)
    IN  {IF updated[n].def.source # "" THEN updated[n].def.source ELSE PrimaryName :
            n \in {k \in 1..Len(updated) : updated[k].def.mtype # SUBMODEL_ARRAY}}

\* Model.update has read the entity and handed it to Instance.update
UpdateCalled ==
    /\ request.op = "update"
    /\ pc = "running"
    /\ sourceOp.callback # "modelUpdateCallback"
    /\ ~FirstPassFailed

\* Instance.update went through its loop over the bound source instances
UpdateLoopCompleted == UpdateCalled /\ ~inst.hasError /\ ~thrown

\* C11: in an update of a sources-registry model a save is dispatched to a
\* bound source instance only if a changed field belongs to its source, and
\* at most once; when the loop over the bound instances has run, every source
\* owning a changed field was saved, so that with the changed fields all in
\* one source exactly that source's instance is saved and its siblings
\* receive no save.  (The loop stopping at a source that returned no record
\* is the subject of C38.)
C11_OnlyChangedSourcesSaved ==
    (request.op = "update" /\ model.isNextGenModel) =>
        /\ \A i \in SaveIndexes : issued[i].src \in ChangedOwners
        /\ \A i, j \in SaveIndexes : issued[i].src = issued[j].src => i = j
        /\ UpdateLoopCompleted =>
              {issued[i].src : i \in SaveIndexes} = ChangedOwners

\* an update that changed only the email: the accounts record is saved and
\* the bound, unchanged posts record is not
C11_Witness ==
    /\ request.op = "update"
    /\ UpdateLoopCompleted
    /\ ChangedOwners = {"accounts"}
    /\ hasInstance(inst.instances, PrimaryName)
    /\ getInstance(inst.instances, PrimaryName).record = "ok"
    /\ {issued[i].src : i \in SaveIndexes} = {"accounts"}

-----------------------------------------------------------------------------
(* C12 *)

\* C12: Instance.update on valid data (the update of a sources-registry
\* model, the one with the deferred guaranteed operation) invokes the
\* caller's callback exactly once, for any number of source instances that
\* need saving and any order of the save completions and the deferred
\* operation: never twice, and once when nothing is left in flight or deferred.
C12_UpdateCallbackExactlyOnce ==
    (model.isNextGenModel /\ UpdateCalled /\ ~inst.hasError) =>
        /\ Len(cbLog) <= 1
        /\ Quiescent => Len(cbLog) = 1

\* the runs of C12 in which every bound source instance is a record and the
\* data has no array field
AllRecordsBound ==
    /\ \A n \in 1..Len(inst.instances) : inst.instances[n].record = "ok"
    /\ <<"comments">> \notin request.data.fields

\* in those runs the callback is invoked exactly once (holds)
UpdateExactlyOnceWhenRecordsBound ==
    AllRecordsBound => C12_UpdateCallbackExactlyOnce

-----------------------------------------------------------------------------
(* C13 *)

\* the sources that own the fields the caller's data supplies
OwnersOfData ==
    {IF l.def.source # "" THEN l.def.source ELSE PrimaryName :
        l \in {x \in LeafSet : x.path \in request.data.fields}}

\* C13: a Model.create whose valid data touches fields of the primary source
\* only, mapped to it by name or by having no mapping, calls no other source,
\* saves the primary source exactly once and invokes the callback exactly
\* once, with (null, entity) when the save succeeded, the entity carrying the
\* supplied values and the generated id.
C13_PrimaryOnlyCreate ==
    (/\ request.op = "create"
     /\ pc = "running"
     /\ ~inst.hasError
     /\ OwnersOfData = {PrimaryName}) =>
        /\ \A c \in IssuedCalls : c.src = PrimaryName
        /\ Cardinality(SaveIndexes) = 1
        /\ Len(cbLog) <= 1
        /\ (Quiescent /\ SavedPrimary # {}) =>
              /\ cbLog = << [err |-> NoErr, value |-> "instance"] >>
              /\ \A l \in LeafSet :
                    l.path \in request.data.fields => l.path \in inst.values
              /\ \E r \in SavedPrimary : inst.id = r.outcome.id

\* the same for a model whose source entries carry their name (holds)
PrimaryOnlyCreateOfNamedSources == model.named => C13_PrimaryOnlyCreate

-----------------------------------------------------------------------------
(* C14 *)

\* the adapter methods that write
WriteMethods == {"save", "destroy", "createInstance"}

\* C14 as stated: Model.update and Model.delete on an entity whose primary
\* source returns no record invoke the callback exactly once with the
\* not-found error (code 404) and dispatch no save, flush, remove or destroy.
C14_NotFoundOnUpdateAndDelete ==
    (request.op \in {"update", "delete"} /\ PrimaryReturnedNull) =>
        /\ Len(cbLog) = 1
        /\ cbLog[1].err.code = "404"
        /\ \A c \in IssuedCalls : c.method \notin WriteMethods

\* C14, amended: Model.update and Model.delete on an entity whose primary
\* source returns no record invoke the callback exactly once, with an error
\* and no entity: the 404 not-found error, unless the failure of a secondary
\* read of the same pass was latched first, which is then the error
\* reported; no save, flush, remove or destroy is dispatched to any source.
C14_NotFoundStopsTheWrite ==
    (request.op \in {"update", "delete"} /\ PrimaryReturnedNull) =>
        /\ Len(cbLog) = 1
        /\ cbLog[1].value = "undefined"
        /\ \/ cbLog[1].err = NotFound
           \/ \E r \in Failures :
                 /\ r.call.src # PrimaryName
                 /\ cbLog[1].err = translateError(r.outcome.err)
        /\ \A c \in IssuedCalls : c.method \notin WriteMethods

\* an update with data to save whose primary read found no record after a
\* secondary source had returned its record
C14_Witness ==
    /\ request.op = "update"
    /\ request.data.fields # {}
    /\ PrimaryReturnedNull
    /\ \E r \in results : r.call.src # PrimaryName /\ r.outcome.status = "ok"
    /\ cbLog = << [err |-> NotFound, value |-> "undefined"] >>
    /\ inflight = {}

-----------------------------------------------------------------------------
(* C15 *)

\* the codes of the errors the engine hands to a caller
TranslatedCodes == {"400", "404", "500"}

\* C15: for every caller-facing operation (list, read, create, update,
\* delete) an error reaches the caller's callback only in its translated
\* form, with code 400, 404 or 500, and never as the error the source
\* adapter reported.
C15_OnlyTranslatedErrors ==
    \A i \in 1..Len(cbLog) :
        cbLog[i].err = NoErr \/ cbLog[i].err.code \in TranslatedCodes

\* the errors of read, create and update pass through failSourceOp (holds)
BarrierErrorsAreTranslated ==
    request.op \in {"read", "create", "update"} => C15_OnlyTranslatedErrors

-----------------------------------------------------------------------------
(* C16 *)

\* the outcomes reported for the count of a list call
CountResults == {r \in results : r.call.method = "count"}

\* C16: Model.list queries only the primary source and invokes the callback
\* exactly once.  With should_include_meta, count is dispatched first and
\* list only after count has called back successfully (a count error is
\* reported and list is never dispatched), and the result is {list, meta}
\* with total the count and the limit and offset of the call; without it,
\* list is dispatched directly and the result is the bare list.
C16_ListProtocol ==
    (request.op = "list" /\ pc = "running") =>
        /\ \A c \in IssuedCalls : c.src = PrimaryName
        /\ Len(cbLog) <= 1
        /\ Quiescent => Len(cbLog) = 1
        /\ IF request.options.should_include_meta
           THEN /\ Len(issued) \in {1, 2}
                /\ issued[1].method = "count"
                /\ Len(issued) = 2 =>
                      /\ issued[2].method = "list"
                      /\ \E r \in CountResults :
                            /\ r.outcome.status = "ok"
                            /\ issued[2].arg = r.outcome.id
                /\ \A r \in CountResults :
                      r.outcome.status = "err" =>
                          /\ Len(issued) = 1
                          /\ cbLog = << [err |-> r.outcome.err,
                                         value |-> "undefined"] >>
           ELSE /\ Len(issued) = 1
                /\ issued[1].method = "list"
        /\ (cbLog # <<>> /\ cbLog[1].err = NoErr) =>
              IF request.options.should_include_meta
              THEN /\ cbLog[1].value = "result"
                   /\ \E r \in CountResults : listed.total = r.outcome.id
                   /\ listed.limit = IF request.options.limit # 0
                                     THEN request.options.limit ELSE DefaultLimit
                   /\ listed.offset = request.options.offset
              ELSE cbLog[1].value = "list"

\* a list with meta whose count reported two records and whose page of two
\* records was handed to the caller with the total
C16_Witness ==
    /\ request.op = "list"
    /\ request.options.should_include_meta
    /\ Len(issued) = 2
    /\ cbLog = << [err |-> NoErr, value |-> "result"] >>
    /\ listed.total = MaxListed
    /\ listed.size = MaxListed
    /\ listed.limit = MaxListed

-----------------------------------------------------------------------------
(* C17 *)

-----------------------------------------------------------------------------
(* C18 *)

\* the non-primary one-to-one and one-to-many bindings the view selects
SelectedSecondaryBindings ==
    {s \in FirstPassBindings :
        /\ ~s.is_primary
        /\ shouldReadFromSource(s, request.view, request.fields,
                                Definition, <<>>, FALSE)}

\* the list call handed a list of at least one entity to the caller
ListDelivered ==
    /\ request.op = "list"
    /\ cbLog # <<>>
    /\ cbLog[1].err = NoErr
    /\ listed.size >= 1

CallsOfSource(name) == {i \in 1..Len(issued) : issued[i].src = name}

\* C18 as stated: for a list returning k primary-source entities, each
\* selected non-primary one-to-many or one-to-one binding is queried exactly
\* once, with the k local keys, and its results are attached to the entities.
C18_ListDecoratedOncePerBinding ==
    ListDelivered =>
        \A s \in SelectedSecondaryBindings :
            /\ Cardinality(CallsOfSource(s.name)) = 1
            /\ s.name \in listed.bound

\* C18, amended: a list returning k primary-source entities queries no
\* non-primary binding, whatever the view selects: no call is made to a
\* one-to-many or one-to-one secondary source, neither once nor once per
\* entity, and every entity of the result is bound from its primary-source
\* record alone.
C18_ListIsNotDecorated ==
    ListDelivered =>
        /\ \A s \in SelectedSecondaryBindings : CallsOfSource(s.name) = {}
        /\ listed.bound = {PrimaryName}

\* a list with view 'all' of a model with a one-to-one and a one-to-many
\* secondary source that returned two entities
C18_Witness ==
    /\ ListDelivered
    /\ request.view = "all"
    /\ Cardinality(SelectedSecondaryBindings) = 2
    /\ listed.size = MaxListed

-----------------------------------------------------------------------------
(* C19 *)

\* the caller's data supplies the one-to-many array field of a declared source
ArraySupplied ==
    /\ <<"comments">> \in request.data.fields
    /\ "comments" \in model.registered

\* the calls that write an element of the array at its source
ElementWrites ==
    {i \in 1..Len(issued) :
        /\ issued[i].src = "comments"
        /\ issued[i].method \in {"save", "destroy"}}

\* C19: in an update that supplies a one-to-many array field, the elements
\* are written at their source (one flagged for deletion is removed, the
\* others are saved) under the parent's barrier, and the parent callback
\* fires exactly once after all of them have completed: no exception escapes,
\* and an update with nothing left in flight or deferred has written the
\* elements and called back once.
C19_ArrayElementsUpdated ==
    (UpdateCalled /\ ~inst.hasError /\ ArraySupplied) =>
        /\ ~thrown
        /\ Len(cbLog) <= 1
        /\ Quiescent => (Len(cbLog) = 1 /\ ElementWrites # {})

-----------------------------------------------------------------------------
(* C20 *)

\* C20: in a create that supplies a one-to-many array field, once the save
\* of the primary has succeeded every element of the array is saved under
\* the barrier and the caller's callback fires exactly once after the
\* element saves have completed: no exception escapes, and a create with
\* nothing left in flight has saved the elements and called back once.
C20_ArrayElementsCreated ==
    (/\ request.op = "create"
     /\ ~inst.hasError
     /\ ArraySupplied
     /\ SavedPrimary # {}) =>
        /\ ~thrown
        /\ Len(cbLog) <= 1
        /\ Quiescent => (Len(cbLog) = 1 /\ ElementWrites # {})

-----------------------------------------------------------------------------
(* Vocabulary of the properties of the handle *)

\* toObject returned an object
ToObjectReturned == walk.op = "toObject" /\ ~walk.thrown

\* the view toObject worked with
ViewUsed == IF walk.view = "" THEN "default" ELSE walk.view

\* the leaf at p holds a value on the handle
IsSet(p) == doc[p] # "undefined"

\* the leaf at p is in the object toObject returned
InOutput(p) == walk.out[p] # "undefined"

-----------------------------------------------------------------------------
(* C21 *)

\* the view is 'all', or the leaf's views has the view, or fields names the
\* leaf's own dot-path
SelectedByOwnPath(p) ==
    \/ ViewUsed = "all"
    \/ ViewUsed \in LeafDefinition(p).views
    \/ p \in walk.fieldMap

\* C21 as stated: toObject(view, fields) includes a leaf that holds a value
\* if and only if view is 'all', or the leaf's views contains view, or fields
\* names the leaf's full dot-path; a sub-document is in the output only if
\* one of its descendants is.
C21_ToObjectInclusion ==
    ToObjectReturned =>
        /\ \A p \in LeafPaths : InOutput(p) <=> IsSet(p) /\ SelectedByOwnPath(p)
        /\ \A s \in SubPaths :
              walk.out[s] # "undefined" =>
                  \E p \in LeafPaths \cup ExtraPaths : IsPrefix(s, p) /\ InOutput(p)

\* C21, amended: toObject(view, fields) includes a leaf that holds a value
\* if and only if view is 'all', or the leaf's views contains view, or fields
\* names the leaf's full dot-path or the dot-path of a sub-document that
\* encloses the leaf; a sub-document is in the output only if one of its
\* descendants is.
C21_ToObjectInclusionBySubDocument ==
    ToObjectReturned =>
        /\ \A p \in LeafPaths :
              InOutput(p) <=>
                  /\ IsSet(p)
                  /\ \/ SelectedByOwnPath(p)
                     \/ \E s \in SubPaths : IsPrefix(s, p) /\ s \in walk.fieldMap
        /\ \A s \in SubPaths :
              walk.out[s] # "undefined" =>
                  \E p \in LeafPaths \cup ExtraPaths : IsPrefix(s, p) /\ InOutput(p)

\* fields names only the sub-document and a leaf below it, in no view, is
\* in the output
C21_Witness ==
    /\ ToObjectReturned
    /\ walk.view = "default"
    /\ walk.fieldMap = {<<"profile">>}
    /\ walk.out[<<"profile", "bio">>] = "good"
    /\ walk.out[<<"title">>] = "good"
    /\ walk.out[<<"status">>] = "undefined" /\ IsSet(<<"status">>)

-----------------------------------------------------------------------------
(* C22 *)

\* C22: toObject('all', {}) returns an object that has every field of the
\* definition that holds a value on the instance, with that value, whatever
\* the field's views set is, and that has neither the __meta key nor a
\* function-valued property.
C22_ToObjectAll ==
    (walk.op = "toObject" /\ walk.view = "all" /\ walk.fieldMap = {}) =>
        /\ ~walk.thrown
        /\ \A p \in LeafPaths : IsSet(p) => walk.out[p] = doc[p]
        /\ \A s \in SubPaths :
              (\E p \in LeafPaths : IsPrefix(s, p) /\ IsSet(p)) => walk.out[s] = "object"
        /\ \A p \in ReservedPaths : walk.out[p] = "undefined"

\* a field that is in no view and a field that is not in the default view
\* are both in the output of toObject('all', {})
C22_Witness ==
    /\ walk.op = "toObject" /\ walk.view = "all" /\ walk.fieldMap = {}
    /\ LeafDefinition(<<"profile", "bio">>).views = {}
    /\ walk.out[<<"profile", "bio">>] = "good"
    /\ walk.out[<<"status">>] = "bad"
    /\ walk.out[<<"id">>] = "good"
    /\ doc[<<"__meta">>] = "meta" /\ doc[<<"check">>] = "function"

-----------------------------------------------------------------------------
(* C23 *)

\* the leaves whose metadata has an error
FieldErrors == {p \in LeafPaths : fieldMeta[p].hasError}

\* the required leaves that have no default
RequiredNoDefault ==
    {p \in LeafPaths : /\ LeafDefinition(p).required
                       /\ LeafDefinition(p).defaultValue = "undefined"}

\* C23: after isValid() has run, a required field without a default that is
\* unset has a field-level error and isValid() returned false; that error is
\* the only one when every set field passes its constraints; an unset field
\* that is not required has no error.
C23_RequiredFieldUnset ==
    (walk.op = "isValid" /\ ~walk.thrown) =>
        /\ \A p \in RequiredNoDefault :
              ~IsSet(p) => /\ ~walk.valid
                           /\ p \in FieldErrors
                           /\ (\A q \in LeafPaths : doc[q] # "bad")
                                 => FieldErrors = {p}
        /\ \A p \in LeafPaths :
              ~IsSet(p) /\ ~LeafDefinition(p).required => p \notin FieldErrors

\* isValid() ran on an instance whose required title is unset, while the
\* optional id and bio are unset too
C23_Witness ==
    /\ walk.op = "isValid" /\ ~walk.valid
    /\ ~IsSet(<<"title">>) /\ ~IsSet(<<"id">>) /\ ~IsSet(<<"profile", "bio">>)
    /\ FieldErrors = {<<"title">>}

-----------------------------------------------------------------------------
(* C24 *)

\* C24: after isValid() has returned, neither the instance nor a
\* sub-document of it holds a key that the definition does not have, except
\* the reserved __meta and the function-valued properties, which are as they
\* were; and every key of the definition that held a value holds it still.
C24_UnknownFieldsStripped ==
    (walk.op = "isValid" /\ ~walk.thrown) =>
        /\ \A e \in ExtraPaths : doc[e] = "undefined"
        /\ \A r \in ReservedPaths : doc[r] = walk.before[r] /\ doc[r] # "undefined"
        /\ \A p \in LeafPaths \cup SubPaths :
              walk.before[p] # "undefined" => doc[p] = walk.before[p]

\* isValid() ran on an instance that held an unknown key at the top and one
\* in a sub-document, next to values of the definition's own keys
C24_Witness ==
    /\ walk.op = "isValid"
    /\ walk.before[<<"extra">>] = "good"
    /\ walk.before[<<"profile", "extra">>] = "good"
    /\ walk.before[<<"profile", "bio">>] = "good"
    /\ walk.before[<<"title">>] = "good"
    /\ doc[<<"extra">>] = "undefined"
    /\ doc[<<"profile", "bio">>] = "good"

-----------------------------------------------------------------------------
(* C25: a value read from a source and written back reaches it unchanged *)

\* the mapping of the leaf defines both functions the README names
HasBothFunctions(p) == {"serialize", "deserialize"} \subseteq LeafDefinition(p).mapping

\* the entity holds at p what the read path made of the stored value
HoldsWhatWasRead(p) ==
    /\ Truthy(record[p])
    /\ doc[p] = deserialize(record[p])

\* C25: for a field whose mapping defines serialize and deserialize, inverses
\* of each other, when the entity holds the deserialized form of the value x
\* the source stores and the field is written by update(), the value set on
\* the source instance is x again.
C25_RoundTrip ==
    [][\A p \in LeafPaths :
          (/\ walk'.op = "update" /\ walk'.valid
           /\ HasBothFunctions(p)
           /\ HoldsWhatWasRead(p)
           /\ fieldMeta[p].hasChanged)
          => record'[p] = record[p]]_vars

-----------------------------------------------------------------------------
(* C26: bind(data, true) marks exactly the supplied fields that may change *)

\* the data handed to the last bind has a value for the leaf
Supplied(data, p) == data[p] # "undefined"

\* C26: bind(data, true) marks as changed every leaf that data supplies,
\* whatever its value, unless it is readOnly, and no other leaf; a readOnly
\* leaf is never marked and keeps its value.
C26_BindMarksSupplied ==
    [][(walk'.op = "bind" /\ walk'.isUpdate) =>
          \A p \in LeafPaths :
             IF LeafDefinition(p).readOnly
             THEN ~fieldMeta'[p].hasChanged /\ doc'[p] = doc[p]
             ELSE IF Supplied(walk'.data, p)
             THEN fieldMeta'[p].hasChanged
             ELSE fieldMeta'[p].hasChanged = fieldMeta[p].hasChanged]_vars

-----------------------------------------------------------------------------
(* C27: a configuration that cannot work is rejected at registration *)

\* the field mapping names a source this.sources declares
MappingDeclared == setup.field.source \in setup.declared

\* an entry of this.sources has is_primary
HasPrimary == setup.primary \in setup.declared

\* C27: a model whose field mapping names an undeclared source, or that has
\* no primary binding, does not get through construction, addSource and
\* initialize: it is rejected before a request can be issued.
C27_InvalidConfigRejected ==
    setup.step = "initialized" => MappingDeclared /\ HasPrimary

-----------------------------------------------------------------------------
(* C28: the first failure of a barrier wins *)

\* C28: once the barrier of the instance is failed, no later step (a further
\* failSourceOp in particular) invokes the caller's callback again or
\* replaces the error the barrier recorded.
C28_FirstFailureWins ==
    [][sourceOp.isFailed =>
          /\ cbLog' = cbLog
          /\ sourceOp'.error = sourceOp.error]_vars

-----------------------------------------------------------------------------
(* C29: the barrier reports success only when nothing is pending *)

\* the step in which the barrier hands the instance to the caller's callback
BarrierSucceeds ==
    /\ sourceOp.callback # "null"
    /\ cbLog' = Append(cbLog, [err |-> NoErr, value |-> "instance"])

\* C29: when the barrier invokes the callback with (null, instance) its
\* count is 0, it is not failed and no call dispatched to a source is still
\* in flight; and the count is never negative.
C29_BarrierSuccess ==
    /\ [][BarrierSucceeds =>
             /\ sourceOp'.count = 0
             /\ ~sourceOp'.isFailed
             /\ inflight' = {}]_vars
    /\ [](sourceOp.count >= 0)


\* a read of several sources handed the instance to the caller
C29_Witness ==
    /\ request.op = "read"
    /\ Len(issued) >= 2
    /\ cbLog = << [err |-> NoErr, value |-> "instance"] >>
    /\ sourceOp.count = 0
    /\ sourceOp.callback = "null"

-----------------------------------------------------------------------------
(* C30: outcomes that arrive after a failure are discarded *)

\* C30: once the barrier has latched a failure, the completion of a call
\* that was still in flight changes neither the field values of the
\* instance nor the source records bound to it.
C30_LateOutcomesDiscarded ==
    [][sourceOp.isFailed =>
          /\ inst'.values = inst.values
          /\ inst'.id = inst.id
          /\ inst'.instances = inst.instances]_vars

-----------------------------------------------------------------------------
(* C31: overlapping calls do not share a barrier *)

\* the outcomes the callback of caller c received
Received(c) == SelectSeq(overlap.log, LAMBDA e : e.caller = c)

\* nothing of the calls made is in flight or deferred
Settled ==
    /\ overlap.inflight = {}
    /\ \A h \in Handles : overlap.immediates[h] = 0

\* C31: of two overlapping calls (two reads, or two update calls on the same
\* entity instance) each caller's callback is invoked exactly once, with an
\* error exactly when one of that call's own sub-operations failed.
C31_BarrierPerCall ==
    \A c \in overlap.called :
        /\ Len(Received(c)) <= 1
        /\ Settled => Len(Received(c)) = 1
        /\ Len(Received(c)) = 1 /\ Received(c)[1].err # NoErr => c \in overlap.failed
        /\ Len(Received(c)) = 1 /\ Received(c)[1].err = NoErr => c \notin overlap.failed

-----------------------------------------------------------------------------
(* C32: a field list that names a sub-document or a nested leaf *)

\* the field list of the request names the leaf or a sub-document above it
NamedByFieldList(p) ==
    \E q \in request.fields : q = p \/ IsPrefix(q, p)

\* C32: in a read, every non-primary source that owns a leaf the field list
\* names, by its own path or by the path of a sub-document above it at any
\* depth, is sent a read.
C32_NamedSourcesParticipate ==
    (request.op = "read" /\ pc = "running" /\ ~thrown) =>
        \A n \in 1..Len(Leaves(Definition, <<>>)) :
            LET l == Leaves(Definition, <<>>)[n] IN
            (l.def.source # "" /\ NamedByFieldList(l.path)) =>
                \E call \in IssuedCalls : call.src = l.def.source

-----------------------------------------------------------------------------
(* C33: binding a source record marks nothing as changed *)

\* the changed-field set of the handle
ChangedFields == {p \in LeafPaths : fieldMeta[p].hasChanged}

\* C33: no call other than bind alters the changed-field set, in particular
\* not bindFromSourceInstance, so an entity populated only from source
\* records has an empty set; and an update of an entity whose set is empty
\* sets no value on its source instance: there is nothing to save.
C33_SourceBindingMarksNothing ==
    [][/\ walk'.op # "bind" =>
             {p \in LeafPaths : fieldMeta'[p].hasChanged} = ChangedFields
       /\ (walk'.op = "update" /\ ChangedFields = {}) => record' = record]_vars

\* an entity bound from a source record only was updated
C33_Witness ==
    /\ walk.op = "update"
    /\ walk.valid
    /\ ChangedFields = {}
    /\ record[<<"profile", "bio">>] = "raw"
    /\ doc[<<"profile", "bio">>] = "good"

-----------------------------------------------------------------------------
(* C34: an unset required field takes its default and is then validated *)

\* the value of the leaf is undefined or null
Unset(p) == doc[p] \in {"undefined", "null"}

\* the constraints of the leaf reject the value
Rejects(p, v) == LeafDefinition(p).constrained /\ v = "bad"

\* C34: isValid() gives an unset required leaf that declares a default that
\* default, and then evaluates the constraints of the leaf on it: the leaf
\* has an error exactly when its constraints reject the default.
C34_DefaultThenConstraints ==
    [][(walk'.op = "isValid" /\ ~walk'.thrown) =>
          \A p \in LeafPaths :
             (/\ LeafDefinition(p).required
              /\ LeafDefinition(p).defaultValue # "undefined"
              /\ Unset(p))
             => /\ doc'[p] = LeafDefinition(p).defaultValue
                /\ fieldMeta'[p].hasError
                      = Rejects(p, LeafDefinition(p).defaultValue)]_vars

-----------------------------------------------------------------------------
(* C35: validation stops at the first failing constraint of a field *)

\* the place of the first constraint of the field that its value fails
FirstFailing(f) ==
    CHOOSE k \in DOMAIN f.constraints :
        /\ f.constraints[k] \in f.failing
        /\ \A h \in 1..(k - 1) : f.constraints[h] \notin f.failing

HasFailing(f) == \E k \in DOMAIN f.constraints : f.constraints[k] \in f.failing

\* C35: for each field the recorded error is that of the first failing
\* constraint in declaration order and no later constraint of the field is
\* evaluated; a field without a failing constraint has all its constraints
\* evaluated and no error, whatever the other field did; and getErrors
\* reports every invalid field with its own error.
C35_FailFastPerField ==
    probe.fn = "isValid" =>
        LET metadata == probe.result[1]
            errors == probe.result[2]
        IN  /\ \A n \in 1..Len(probe.args) :
                  LET f == probe.args[n] IN
                  IF HasFailing(f)
                  THEN /\ metadata[n].hasError
                       /\ metadata[n].lastError = f.constraints[FirstFailing(f)]
                       /\ metadata[n].evaluated = SubSeq(f.constraints, 1, FirstFailing(f))
                  ELSE /\ ~metadata[n].hasError
                       /\ metadata[n].evaluated = f.constraints
            /\ DOMAIN errors = {n \in 1..Len(probe.args) : HasFailing(probe.args[n])}
            /\ \A n \in DOMAIN errors : errors[n] = metadata[n].lastError

\* the value of the first field fails both its constraints and the value of
\* the second field fails its second constraint
C35_Witness ==
    /\ probe.fn = "isValid"
    /\ Len(probe.args[1].constraints) = 2
    /\ probe.args[1].failing = {"len", "isIn"}
    /\ Len(probe.args[2].constraints) = 2
    /\ probe.args[2].constraints[2] \in probe.args[2].failing
    /\ probe.args[2].constraints[1] \notin probe.args[2].failing
    /\ probe.result[1][1].hasError /\ probe.result[1][2].hasError

-----------------------------------------------------------------------------
(* C36: what a sub-document definition is *)

\* the definition has a key outside constraints, views and mapping that
\* holds an object
HasObjectValuedChild(def) ==
    \E i \in DOMAIN def.keys :
        def.keys[i] = "object" /\ i \notin {"constraints", "views", "mapping"}

\* C36: isSubDocumentDefinition returns true exactly when the definition is
\* not an array, has no type key and has an object-valued child key outside
\* constraints, views and mapping; and the implementation of the model and
\* that of the instance return the same.
C36_SubDocumentDefinition ==
    probe.fn = "isSubDocumentDefinition" =>
        LET def == probe.args[1] IN
        /\ probe.result[1] = (/\ ~def.isArray
                              /\ def.keys["type"] = "absent"
                              /\ HasObjectValuedChild(def))
        /\ probe.result[2] = probe.result[1]

-----------------------------------------------------------------------------
(* C37: the sources a read queries cover the fields toObject copies *)

\* the leaves toObject(view, fields) copies for the view and the field list
\* of the request
CopiedByToObject ==
    copiedLeaves(Definition, <<>>, request.view, request.fields,
                 request.view = "all")

\* C37: in a read, every field that toObject would include for the view and
\* the field list of the request is owned by a source the read queries.
C37_SelectionCoversSerialization ==
    (request.op = "read" /\ pc = "running" /\ ~thrown) =>
        \A n \in 1..Len(Leaves(Definition, <<>>)) :
            LET l == Leaves(Definition, <<>>)[n] IN
            (l.def.source # "" /\ l.path \in CopiedByToObject) =>
                \E call \in IssuedCalls : call.src = l.def.source

-----------------------------------------------------------------------------
(* C38: an update of an entity one of whose sources has no record *)

\* the read that precedes the update got no record from a non-primary
\* ONE_TO_ONE source
SecondaryReturnedNull ==
    \E r \in results :
        /\ r.call.src # PrimaryName
        /\ SourceInfo(r.call.src).relationship = ONE_TO_ONE
        /\ r.call.closure \in FirstPassClosures
        /\ r.outcome.status = "null"

\* C38: such an update lets no exception escape and invokes the caller's
\* callback exactly once.
C38_UpdateWithMissingRecord ==
    (request.op = "update" /\ model.isNextGenModel /\ SecondaryReturnedNull) =>
        /\ ~thrown
        /\ Len(cbLog) <= 1
        /\ Quiescent => Len(cbLog) = 1

-----------------------------------------------------------------------------
(* C39: bind leaves alone what the data does not supply *)

\* C39: bind(data, isUpdate) changes neither the value nor the metadata of
\* a leaf that data does not supply, also when the leaf is inside a
\* sub-document that data omits.
C39_BindFrame ==
    [][walk'.op = "bind" =>
          \A p \in LeafPaths :
             ~Supplied(walk'.data, p) =>
                 /\ doc'[p] = doc[p]
                 /\ fieldMeta'[p] = fieldMeta[p]]_vars

-----------------------------------------------------------------------------
(* C40: the query built for a source *)

====
